---- MODULE Spec2Model ----
(***************************************************************************)
(* simpl.db: the path-addressed data engine (lib/Database.js) and the      *)
(* collection entry engine (lib/Collection.js) as state machines.          *)
(*                                                                         *)
(* JavaScript values are tagged records.  A string is a sequence of        *)
(* one-character strings, an array a sequence of values, a mapping a       *)
(* sequence of <<name, value>> pairs in property order.  Property reads    *)
(* see own properties only: the names drawn as key segments are never      *)
(* names of members of Object.prototype, Array.prototype or the wrapper    *)
(* prototypes (toString, constructor, __proto__, ...).                     *)
(* A number is an integer of small magnitude, which double precision holds *)
(* exactly, or Number.MAX_VALUE or an infinity of either sign, or NaN.     *)
(***************************************************************************)
EXTENDS Integers, Sequences, FiniteSets, TLC

VARIABLES
  data,          \* Database.#data: the root tree
  dbConfig,      \* Database.#config: autoSave, encryptionKey
  dataFile,      \* the data file on disk: [exists, content]
  collections,   \* Database.collections: the names of the registered collections
  colFolder,     \* the collections folder on disk: [exists, files]
  last,          \* the last public call: its arguments and its outcome
  cData,         \* Collection.#data: the in-memory entries
  cDefaults,     \* Collection.#defaultValues: the template
  cConfig,       \* Collection.#config: autoSave, timestamps
  totalEntries,  \* Collection.totalEntries
  cFile,         \* the collection's file on disk
  clock,         \* Date.now()
  uuids,         \* number of randomUUID() values drawn so far
  pristine,      \* history: only create/createBulk calls since the empty collection
  held,          \* the entry a caller keeps from a read, and what its save() closes over
  calls          \* history: the number of public calls made so far

vars == <<data, dbConfig, dataFile, collections, colFolder, last, cData, cDefaults,
          cConfig, totalEntries, cFile, clock, uuids, pristine, held, calls>>

dbVars == <<data, dbConfig, dataFile, collections, colFolder>>
colVars == <<cData, cDefaults, cConfig, totalEntries, cFile, clock, uuids, pristine, held>>

-----------------------------------------------------------------------------
(* Bounds                                                                  *)

MaxDbCalls == 2    \* database calls in one run
MaxOpCalls == 2    \* calls of rename, add, subtract, push, pull, update in one run
MaxColCalls == 2   \* collection calls in one run
MaxBulk == 2       \* entries in one createBulk
MaxEntries == 3    \* entries held by the collection
MaxClock == 1      \* ticks of Date.now()
MaxHandleUses == 2 \* assignments to and saves of one entry held
MaxRegCalls == 3   \* calls of createCollection, deleteCollection, getCollection in one run

-----------------------------------------------------------------------------
(* JavaScript values                                                       *)

Undefined == [t |-> "undefined"]
Null == [t |-> "null"]
Num(n) == [t |-> "number", n |-> n]
NaN == [t |-> "number", nan |-> TRUE]
\* Infinity (sign 1) and -Infinity (sign -1)
Infinity(sign) == [t |-> "number", inf |-> sign]
\* Number.MAX_VALUE (sign 1) and -Number.MAX_VALUE (sign -1)
MaxValue(sign) == [t |-> "number", max |-> sign]
\* a function value
Fn == [t |-> "function"]
Bool(b) == [t |-> "boolean", b |-> b]
Str(s) == [t |-> "string", s |-> s]
Arr(a) == [t |-> "array", a |-> a]
Obj(m) == [t |-> "object", m |-> m]

IsNullish(v) == v.t \in {"undefined", "null"}

\* typeof v === 'object' is also true of null; a mapping is what isObject accepts
TypeOf(v) ==
  CASE v.t = "undefined" -> "undefined"
    [] v.t = "number" -> "number"
    [] v.t = "boolean" -> "boolean"
    [] v.t = "string" -> "string"
    [] v.t \in {"null", "array", "object"} -> "object"
    [] v.t = "function" -> "function"

\* a number the model holds exactly: an integer of small magnitude
IsInt(v) == v.t = "number" /\ "n" \in DOMAIN v
IsInfinity(v) == v.t = "number" /\ "inf" \in DOMAIN v
IsMaxValue(v) == v.t = "number" /\ "max" \in DOMAIN v

\* !!v
Truthy(v) ==
  CASE v.t \in {"undefined", "null"} -> FALSE
    [] v.t = "boolean" -> v.b
    [] v.t = "number" -> v # NaN /\ v # Num(0)
    [] v.t = "string" -> v.s # <<>>
    [] v.t \in {"array", "object", "function"} -> TRUE

\* StrictEquals comparing arrays and mappings by content instead of identity
StrictEqualsDeep(a, b, sameRef) == a = b /\ a # NaN

\* a === b, where sameRef tells whether two non-primitive operands are the
\* same reference: primitives compare by value, arrays and mappings by identity
StrictEquals(a, b, sameRef) ==
  IF a.t \in {"array", "object"} \/ b.t \in {"array", "object"}
    THEN a = b /\ sameRef
    ELSE a = b /\ a # NaN

-----------------------------------------------------------------------------
(* Own properties                                                          *)

Digits == <<"0", "1", "2", "3", "4", "5", "6", "7", "8", "9">>
LengthName == <<"l", "e", "n", "g", "t", "h">>

\* a canonical array index below 10: one decimal digit
IsIndex(name) == Len(name) = 1 /\ \E d \in 1..10 : Digits[d] = name[1]
IndexOf(name) == (CHOOSE d \in 1..10 : Digits[d] = name[1]) - 1

ObjNames(m) == {m[i][1] : i \in 1..Len(m)}
ObjHas(m, name) == name \in ObjNames(m)
ObjGet(m, name) ==
  IF ObjHas(m, name)
    THEN m[CHOOSE i \in 1..Len(m) : m[i][1] = name][2]
    ELSE Undefined

\* m[name] = v: an existing property keeps its place; a new index name goes
\* among the index names in ascending order, any other new name goes last
ObjPut(m, name, v) ==
  IF ObjHas(m, name)
    THEN [i \in 1..Len(m) |-> IF m[i][1] = name THEN <<name, v>> ELSE m[i]]
    ELSE IF IsIndex(name)
      THEN LET before == {i \in 1..Len(m) : IsIndex(m[i][1]) /\ IndexOf(m[i][1]) < IndexOf(name)}
               n == Cardinality(before)
           IN SubSeq(m, 1, n) \o <<<<name, v>>>> \o SubSeq(m, n + 1, Len(m))
      ELSE Append(m, <<name, v>>)

\* delete m[name]
ObjDelete(m, name) == SelectSeq(m, LAMBDA p : p[1] # name)

\* Prop reading properties of mappings only
PropOfMapping(v, name) ==
  CASE v.t = "object" -> ObjGet(v.m, name)
    [] OTHER -> Undefined

\* v[name] for a value v that is neither null nor undefined
Prop(v, name) ==
  CASE v.t = "object" -> ObjGet(v.m, name)
    [] v.t = "array" ->
         IF name = LengthName THEN Num(Len(v.a))
         ELSE IF IsIndex(name) /\ IndexOf(name) < Len(v.a) THEN v.a[IndexOf(name) + 1]
         ELSE Undefined
    [] v.t = "string" ->
         IF name = LengthName THEN Num(Len(v.s))
         ELSE IF IsIndex(name) /\ IndexOf(name) < Len(v.s) THEN Str(<<v.s[IndexOf(name) + 1]>>)
         ELSE Undefined
    [] v.t \in {"number", "boolean", "function"} -> Undefined

\* v?.[name]
OptProp(v, name) == IF IsNullish(v) THEN Undefined ELSE Prop(v, name)

-----------------------------------------------------------------------------
(* lib/Utils.js                                                            *)

\* the first and last character of JSON.stringify(v); undefined has none
StringifyEnds(v) ==
  CASE v.t \in {"undefined", "function"} -> <<>>
    [] v.t = "object" -> <<"{", "}">>
    [] v.t = "array" -> <<"[", "]">>
    [] v.t = "string" -> <<"\"", "\"">>
    [] v.t = "null" -> <<"n", "l">>
    [] v.t = "boolean" -> IF v.b THEN <<"t", "e">> ELSE <<"f", "e">>
    [] v.t = "number" -> <<"0", "0">>

isObject(obj) ==
  LET ends == StringifyEnds(obj)
  IN ends # <<>> /\ ends[1] = "{" /\ ends[2] = "}"

RECURSIVE SplitOn(_, _)
\* s.split(c)
SplitOn(s, c) ==
  IF \A i \in 1..Len(s) : s[i] # c
    THEN <<s>>
    ELSE LET i == CHOOSE j \in 1..Len(s) : s[j] = c /\ \A h \in 1..(j - 1) : s[h] # c
         IN <<SubSeq(s, 1, i - 1)>> \o SplitOn(SubSeq(s, i + 1, Len(s)), c)

\* key.split('.')
Split(s) == SplitOn(s, ".")

\* isValidKey looking at the first segment only
isValidKeyFirst(key) ==
  /\ TypeOf(key) = "string"
  /\ Split(key.s)[1] # <<>>

isValidKey(key) ==
  /\ TypeOf(key) = "string"
  /\ \A i \in 1..Len(Split(key.s)) : Split(key.s)[i] # <<>>

-----------------------------------------------------------------------------
(* Text helpers: key and field names are character sequences               *)

Ka == Str(<<"a">>)
Kab == Str(<<"a", ".", "b">>)
Ka0 == Str(<<"a", ".", "0">>)
KaLength == Str(<<"a", ".">> \o LengthName)
KaDotDotb == Str(<<"a", ".", ".", "b">>)

-----------------------------------------------------------------------------
(* Encryption envelope (Database.#encrypt, Database.#decrypt)              *)

IvLen == 16
HexDigits == <<"0", "1", "2", "3", "4", "5", "6", "7", "8", "9", "a", "b", "c", "d", "e", "f">>
ReplacementChar == "?"

\* UTF-8 codes of the characters strings are drawn from
CharCodes == <<<<" ", 32>>, <<"0", 48>>, <<"1", 49>>, <<"2", 50>>, <<"3", 51>>,
               <<"4", 52>>, <<"5", 53>>, <<"6", 54>>, <<"7", 55>>, <<"8", 56>>,
               <<"9", 57>>, <<":", 58>>, <<"a", 97>>, <<"b", 98>>, <<"c", 99>>,
               <<"d", 100>>, <<"e", 101>>, <<"f", 102>>, <<"h", 104>>, <<"i", 105>>>>

\* Buffer.from(string): the bytes of a string
CodeOf(c) == CharCodes[CHOOSE i \in 1..Len(CharCodes) : CharCodes[i][1] = c][2]
ToBytes(s) == [i \in 1..Len(s) |-> CodeOf(s[i])]

\* buffer.toString(): a byte that encodes none of the characters above
\* decodes to the replacement character
CharOf(b) ==
  IF \E i \in 1..Len(CharCodes) : CharCodes[i][2] = b
    THEN CharCodes[CHOOSE i \in 1..Len(CharCodes) : CharCodes[i][2] = b][1]
    ELSE ReplacementChar
FromBytes(bs) == [i \in 1..Len(bs) |-> CharOf(bs[i])]

\* buffer.toString('hex')
RECURSIVE ToHex(_)
ToHex(bs) ==
  IF bs = <<>> THEN <<>>
  ELSE <<HexDigits[(bs[1] \div 16) + 1], HexDigits[(bs[1] % 16) + 1]>> \o ToHex(Tail(bs))

IsHexDigit(c) == \E i \in 1..16 : HexDigits[i] = c
HexVal(c) == (CHOOSE i \in 1..16 : HexDigits[i] = c) - 1

\* Buffer.from(string, 'hex'): whole pairs of hex digits up to the first
\* pair that is not one
RECURSIVE FromHex(_)
FromHex(s) ==
  IF Len(s) < 2 \/ ~IsHexDigit(s[1]) \/ ~IsHexDigit(s[2]) THEN <<>>
  ELSE <<16 * HexVal(s[1]) + HexVal(s[2])>> \o FromHex(SubSeq(s, 3, Len(s)))

RECURSIVE XorBits(_, _, _)
XorBits(a, b, n) ==
  IF n = 0 THEN 0
  ELSE ((a + b) % 2) + 2 * XorBits(a \div 2, b \div 2, n - 1)

RECURSIVE SumSeq(_)
SumSeq(bs) == IF bs = <<>> THEN 0 ELSE bs[1] + SumSeq(Tail(bs))

\* byte i of the aes-256-ctr key stream under the configured key and the iv:
\* a fixed function of the key, the iv and the position
KeyStream(key, iv, i) == (key * 31 + SumSeq(iv) * 7 + i * 13) % 256

\* cipher.update / decipher.update: aes-256-ctr xors the key stream in
Ctr(key, iv, bs) == [i \in 1..Len(bs) |-> XorBits(bs[i], KeyStream(key, iv, i), 8)]

\* the values of crypto.randomBytes(16) drawn here
Ivs == {[i \in 1..IvLen |-> 0], [i \in 1..IvLen |-> IF i = 1 THEN 165 ELSE 16]}

validateBeforeEncrypt(value) == TypeOf(value) = "string"

\* #encrypt of a string under the iv drawn
encrypt(key, iv, string) == Str(ToHex(iv) \o <<":">> \o ToHex(Ctr(key, iv, ToBytes(string.s))))

validateBeforeDecrypt(value) ==
  /\ TypeOf(value) = "string"
  /\ Len(SplitOn(value.s, ":")) = 2
  /\ \A i \in 1..Len(value.s) : value.s[i] # " "

\* #decrypt: [ok, value]; createDecipheriv throws unless the iv has 16 bytes
decrypt(key, value) ==
  IF ~validateBeforeDecrypt(value) THEN [ok |-> FALSE]
  ELSE LET parts == SplitOn(value.s, ":")
           iv == FromHex(parts[1])
           encryptedText == FromHex(parts[2])
       IN IF Len(iv) # IvLen THEN [ok |-> FALSE]
          ELSE [ok |-> TRUE, value |-> Str(FromBytes(Ctr(key, iv, encryptedText)))]

-----------------------------------------------------------------------------
(* Traversal and mutation of the root tree (lib/Database.js)               *)

RECURSIVE GetPath(_, _)
\* keys.reduce((acc, curr) => acc?.[curr], v)
GetPath(v, keys) ==
  IF keys = <<>> THEN v ELSE GetPath(OptProp(v, keys[1]), Tail(keys))

RECURSIVE objectDotNotationKeep(_, _, _)
\* objectDotNotation assigning the last segment only where it is absent
objectDotNotationKeep(object, Ks, leaf) ==
  IF Len(Ks) = 1
    THEN IF ObjHas(object, Ks[1]) THEN object ELSE ObjPut(object, Ks[1], leaf)
    ELSE LET child == ObjGet(object, Ks[1])
             copy == IF isObject(child) THEN child.m ELSE <<>>
         IN ObjPut(object, Ks[1], Obj(objectDotNotationKeep(copy, Tail(Ks), leaf)))

RECURSIVE objectDotNotationFresh(_, _, _)
\* objectDotNotation putting a fresh mapping at every intermediate segment
objectDotNotationFresh(object, Ks, leaf) ==
  IF Len(Ks) = 1
    THEN ObjPut(object, Ks[1], leaf)
    ELSE ObjPut(object, Ks[1], Obj(objectDotNotationFresh(<<>>, Tail(Ks), leaf)))

RECURSIVE objectDotNotation(_, _, _)
\* the mapping object after objectDotNotation(object, Ks) has stored leaf
objectDotNotation(object, Ks, leaf) ==
  IF Len(Ks) = 1
    THEN ObjPut(object, Ks[1], leaf)
    ELSE LET child == ObjGet(object, Ks[1])
             copy == IF isObject(child) THEN child.m ELSE <<>>
         IN ObjPut(object, Ks[1], Obj(objectDotNotation(copy, Tail(Ks), leaf)))

RECURSIVE objectDotNotationThrown(_, _)
\* the mapping object when #encrypt throws at the last segment: the
\* containers on the path have been replaced or copied, the leaf is untouched
objectDotNotationThrown(object, Ks) ==
  IF Len(Ks) = 1
    THEN object
    ELSE LET child == ObjGet(object, Ks[1])
             copy == IF isObject(child) THEN child.m ELSE <<>>
         IN ObjPut(object, Ks[1], Obj(objectDotNotationThrown(copy, Tail(Ks))))

\* delete o?.[curr] in strict mode: does it throw a TypeError
DeleteThrows(o, curr) ==
  CASE o.t = "array" -> curr = LengthName
    [] o.t = "string" -> curr = LengthName \/ (IsIndex(curr) /\ IndexOf(curr) < Len(o.s))
    [] OTHER -> FALSE

\* o after delete o?.[curr] that does not throw; a deleted array element
\* leaves a hole, which reads as undefined
DeleteProp(o, curr) ==
  CASE o.t = "object" -> Obj(ObjDelete(o.m, curr))
    [] o.t = "array" ->
         IF IsIndex(curr) /\ IndexOf(curr) < Len(o.a)
           THEN Arr([i \in 1..Len(o.a) |-> IF i = IndexOf(curr) + 1 THEN Undefined ELSE o.a[i]])
           ELSE o
    [] OTHER -> o

\* o with its property curr replaced by child (child is the value o[curr]
\* refers to, after it was changed in place)
WithChild(o, curr, child) ==
  CASE o.t = "object" /\ ObjHas(o.m, curr) -> Obj(ObjPut(o.m, curr, child))
    [] o.t = "array" /\ IsIndex(curr) /\ IndexOf(curr) < Len(o.a) ->
         Arr([i \in 1..Len(o.a) |-> IF i = IndexOf(curr) + 1 THEN child ELSE o.a[i]])
    [] OTHER -> o

RECURSIVE DeletePath(_, _)
\* the reduce of Database.delete: [throws, value]
DeletePath(o, keys) ==
  IF Len(keys) = 1
    THEN IF DeleteThrows(o, keys[1])
           THEN [throws |-> TRUE, value |-> o]
           ELSE [throws |-> FALSE, value |-> DeleteProp(o, keys[1])]
    ELSE LET r == DeletePath(OptProp(o, keys[1]), Tail(keys))
         IN [throws |-> r.throws, value |-> WithChild(o, keys[1], r.value)]

RECURSIVE JsonForm(_)
\* JSON.parse(JSON.stringify(v)): a property holding undefined or a function
\* is dropped; an undefined or function array element, NaN and the
\* infinities become null
JsonForm(v) ==
  CASE v.t = "object" ->
         LET kept == SelectSeq(v.m, LAMBDA p : p[2].t \notin {"undefined", "function"})
         IN Obj([i \in 1..Len(kept) |-> <<kept[i][1], JsonForm(kept[i][2])>>])
    [] v.t = "array" ->
         Arr([i \in 1..Len(v.a) |->
                IF v.a[i].t \in {"undefined", "function"} THEN Null ELSE JsonForm(v.a[i])])
    [] v.t = "number" -> IF v = NaN \/ IsInfinity(v) THEN Null ELSE v
    [] OTHER -> v

\* the data file after Database.save() wrote tree
Written(tree) == [exists |-> TRUE, content |-> JsonForm(tree)]

-----------------------------------------------------------------------------
(* Database methods as functions of the tree d and the configuration cfg:  *)
(* [data: the tree afterwards, err: the error thrown or "none",            *)
(*  ret: the value returned, writes: the calls of save() made]             *)

KeyLen == 32
EncryptionKeys == {Null, Str([i \in 1..KeyLen |-> "c"])}

\* Buffer.from(encryptionKey) as the key of the cipher
CipherKey(cfg) == SumSeq(ToBytes(cfg.encryptionKey.s))

Outcome(d, err, ret, writes) == [data |-> d, err |-> err, ret |-> ret, writes |-> writes]

\* Database.get(key, decrypt)
get(d, cfg, key, dec) ==
  IF ~isValidKey(key) THEN Outcome(d, "InvalidKey", Undefined, 0)
  ELSE IF dec /\ ~Truthy(cfg.encryptionKey) THEN Outcome(d, "MissingEncryptionKey", Undefined, 0)
  ELSE LET found == GetPath(d, Split(key.s))
       IN IF ~dec THEN Outcome(d, "none", found, 0)
          ELSE LET plain == decrypt(CipherKey(cfg), found)
               IN IF plain.ok THEN Outcome(d, "none", plain.value, 0)
                  ELSE Outcome(d, "DecryptionFailure", Undefined, 0)

\* Database.has(key)
has(d, cfg, key) ==
  LET r == get(d, cfg, key, FALSE)
  IN IF r.err # "none" THEN r ELSE Outcome(d, "none", Bool(r.ret # Undefined), 0)

\* this.get(key) !== undefined, for a valid key
Exists(d, key) == GetPath(d, Split(key.s)) # Undefined

\* Database.set(key, value, encrypt); sameRef: value is the very array or
\* mapping that get(key) returns; iv: the bytes crypto.randomBytes returns
set(d, cfg, key, value, enc, sameRef, iv) ==
  IF ~isValidKey(key) THEN Outcome(d, "InvalidKey", Undefined, 0)
  ELSE IF enc /\ ~Truthy(cfg.encryptionKey) THEN Outcome(d, "MissingEncryptionKey", Undefined, 0)
  ELSE LET keys == Split(key.s)
       IN IF ~StrictEquals(GetPath(d, keys), value, sameRef)
            THEN IF d = Undefined
                   \* #data was left unassigned: reading or assigning a
                   \* property of undefined throws, the assignment after its
                   \* right-hand side was evaluated
                   THEN IF Len(keys) = 1 /\ enc /\ ~validateBeforeEncrypt(value)
                          THEN Outcome(d, "EncryptionFailure", Undefined, 0)
                          ELSE Outcome(d, "TypeError", Undefined, 0)
                 ELSE IF enc /\ ~validateBeforeEncrypt(value)
                   THEN Outcome(Obj(objectDotNotationThrown(d.m, keys)), "EncryptionFailure", Undefined, 0)
                   ELSE LET leaf == IF ~enc THEN value ELSE encrypt(CipherKey(cfg), iv, value)
                            after == Obj(objectDotNotation(d.m, keys, leaf))
                        IN Outcome(after, "none", GetPath(after, <<keys[1]>>),
                                   IF cfg.autoSave THEN 1 ELSE 0)
            ELSE Outcome(d, "none", GetPath(d, <<keys[1]>>), 0)

\* Database.delete(key)
delete(d, cfg, key) ==
  IF ~isValidKey(key) THEN Outcome(d, "InvalidKey", Undefined, 0)
  ELSE LET keys == Split(key.s)
           found == GetPath(d, keys)
           r == DeletePath(d, keys)
       IN IF r.throws THEN Outcome(d, "TypeError", Undefined, 0)
          ELSE Outcome(r.value, "none",
                       Bool(Truthy(found) /\ GetPath(r.value, keys) = Undefined),
                       IF cfg.autoSave THEN 1 ELSE 0)

-----------------------------------------------------------------------------
(* Inputs                                                                  *)

Keys == {Ka, Kab, Ka0, KaLength, KaDotDotb}

Hi == Str(<<"h", "i">>)
A == <<"a">>
B == <<"b">>

Values == {Num(0), Hi, Null, Arr(<<Num(1)>>), Obj(<<<<B, Num(1)>>>>)}

\* the calls of set drawn: every key with every value unencrypted, and
\* encrypted calls with a string and with a value that is not a string
SetCalls ==
  {[key |-> k, value |-> v, encrypt |-> FALSE] : k \in Keys, v \in Values}
  \cup {[key |-> k, value |-> v, encrypt |-> TRUE] : k \in {Ka, Kab, KaDotDotb}, v \in {Hi, Num(0)}}

\* the content of the data file when the database is constructed
InitFiles ==
  {[exists |-> FALSE, content |-> Undefined],
   [exists |-> TRUE, content |-> Obj(<<<<A, Hi>>>>)],
   [exists |-> TRUE, content |-> Obj(<<<<A, Arr(<<Num(1)>>)>>>>)]}

-----------------------------------------------------------------------------
(* The database: state after construction and public calls                 *)

NoCall == [op |-> "none", err |-> "none", ret |-> Undefined, writes |-> 0]

\* the collections folder before any collection is created
NoFolder == [exists |-> FALSE, files |-> {}]

\* no entry is held
NoHandle == [via |-> "none"]

\* what a file holds when it is not the JSON form of a value: nothing, or
\* text that JSON.parse rejects
EmptyText == [t |-> "empty"]
NotJson == [t |-> "text"]

\* #checkJSON: the tree loaded from the data file; a missing file (ENOENT),
\* an empty file and a content that is not a mapping give {}; the
\* SyntaxError of JSON.parse has no code, is caught and leaves #data
\* unassigned
checkJSON(file) ==
  IF ~file.exists \/ file.content = EmptyText THEN Obj(<<>>)
  ELSE IF file.content = NotJson THEN Undefined
  ELSE IF isObject(file.content) THEN file.content ELSE Obj(<<>>)

\* new Database(config); the encryption key passed #validateEncryptionKey
InitDb ==
  /\ dbConfig \in [autoSave : BOOLEAN, encryptionKey : EncryptionKeys]
  /\ dataFile \in InitFiles
  /\ data = checkJSON(dataFile)
  /\ collections = <<>>
  /\ colFolder = NoFolder

\* the tree and the file after a call with outcome r; save() swallows the
\* TypeError of writeFileSync when #data was left unassigned
Apply(r) ==
  /\ calls < MaxDbCalls
  /\ calls' = calls + 1
  /\ data' = r.data
  /\ dataFile' = IF r.writes > 0 /\ r.data # Undefined THEN Written(r.data) ELSE dataFile
  /\ UNCHANGED <<dbConfig, collections, colFolder>>

Set ==
  \E call \in SetCalls, sameRef \in BOOLEAN, iv \in Ivs :
    /\ sameRef => (isValidKey(call.key) /\ call.value.t \in {"array", "object"}
                   /\ GetPath(data, Split(call.key.s)) = call.value)
    /\ ~call.encrypt => iv = [i \in 1..IvLen |-> 0]
    /\ LET r == set(data, dbConfig, call.key, call.value, call.encrypt, sameRef, iv)
       IN /\ Apply(r)
          /\ last' = [op |-> "set", key |-> call.key, value |-> call.value,
                      encrypt |-> call.encrypt, sameRef |-> sameRef,
                      had |-> isValidKey(call.key) /\ Exists(data, call.key),
                      err |-> r.err, ret |-> r.ret, writes |-> r.writes]
    /\ UNCHANGED colVars

Get ==
  \E key \in Keys, dec \in BOOLEAN :
    /\ LET r == get(data, dbConfig, key, dec)
       IN /\ Apply(r)
          /\ last' = [op |-> "get", key |-> key, decrypt |-> dec,
                      had |-> isValidKey(key) /\ Exists(data, key),
                      err |-> r.err, ret |-> r.ret, writes |-> r.writes]
    /\ UNCHANGED colVars

Has ==
  \E key \in Keys :
    /\ LET r == has(data, dbConfig, key)
       IN /\ Apply(r)
          /\ last' = [op |-> "has", key |-> key,
                      had |-> isValidKey(key) /\ Exists(data, key),
                      err |-> r.err, ret |-> r.ret, writes |-> r.writes]
    /\ UNCHANGED colVars

Delete ==
  \E key \in Keys :
    /\ LET r == delete(data, dbConfig, key)
       IN /\ Apply(r)
          /\ last' = [op |-> "delete", key |-> key,
                      had |-> isValidKey(key) /\ Exists(data, key),
                      err |-> r.err, ret |-> r.ret, writes |-> r.writes]
    /\ UNCHANGED colVars

\* Database.clear()
Clear ==
  /\ Apply(Outcome(Obj(<<>>), "none", Undefined, IF dbConfig.autoSave THEN 1 ELSE 0))
  /\ last' = [op |-> "clear", err |-> "none", ret |-> Undefined,
              writes |-> IF dbConfig.autoSave THEN 1 ELSE 0]
  /\ UNCHANGED colVars

\* Database.save()
Save ==
  /\ Apply(Outcome(data, "none", Undefined, 1))
  /\ last' = [op |-> "save", err |-> "none", ret |-> Undefined, writes |-> 1]
  /\ UNCHANGED colVars

\* no collection has been created
NoCollection ==
  /\ cData = <<>>
  /\ cDefaults = <<>>
  /\ cConfig = [autoSave |-> TRUE, timestamps |-> FALSE]
  /\ totalEntries = 0
  /\ cFile = [exists |-> FALSE, content |-> Undefined]
  /\ clock = 0
  /\ uuids = 0
  /\ pristine = TRUE
  /\ held = NoHandle

NextDb == Set \/ Get \/ Has \/ Delete \/ Clear \/ Save

\* a database constructed, no collection created, no call made
StartDb == InitDb /\ NoCollection /\ last = NoCall /\ calls = 0

\* the database alone
SpecDb == StartDb /\ [][NextDb]_vars

\* the content of the data file when the database is constructed: no file,
\* an empty file, an array, a scalar, a mapping, text that is not JSON
LoadFiles ==
  {[exists |-> FALSE, content |-> Undefined],
   [exists |-> TRUE, content |-> EmptyText],
   [exists |-> TRUE, content |-> Arr(<<Num(1)>>)],
   [exists |-> TRUE, content |-> Num(0)],
   [exists |-> TRUE, content |-> Obj(<<<<A, Hi>>>>)],
   [exists |-> TRUE, content |-> NotJson]}

\* new Database(config) over a data file of any content
InitLoad ==
  /\ dbConfig \in [autoSave : BOOLEAN, encryptionKey : EncryptionKeys]
  /\ dataFile \in LoadFiles
  /\ data = checkJSON(dataFile)
  /\ collections = <<>>
  /\ colFolder = NoFolder

StartLoad == InitLoad /\ NoCollection /\ last = NoCall /\ calls = 0

\* the database constructed over a data file of any content
SpecLoad == StartLoad /\ [][NextDb]_vars

-----------------------------------------------------------------------------
(* Arithmetic on JavaScript values (lib/Collection.js, #checkEntry)        *)

RECURSIVE Decimal(_)
\* String(n) for a natural number n
Decimal(n) == IF n < 10 THEN <<Digits[n + 1]>> ELSE Decimal(n \div 10) \o <<Digits[(n % 10) + 1]>>

RECURSIVE DigitsValue(_)
DigitsValue(s) == IF s = <<>> THEN 0 ELSE 10 * DigitsValue(SubSeq(s, 1, Len(s) - 1)) + IndexOf(<<s[Len(s)]>>)

RECURSIVE ToNumber(_)
\* Number(v) for undefined, null, a boolean, a number, a string that is
\* empty, decimal digits, or not numeric, a mapping or function (NaN), and an
\* array (the number its elements joined by commas spell: 0 for none, NaN
\* for two or more)
ToNumber(v) ==
  CASE v.t = "undefined" -> NaN
    [] v.t = "null" -> Num(0)
    [] v.t = "boolean" -> IF v.b THEN Num(1) ELSE Num(0)
    [] v.t = "number" -> v
    [] v.t = "string" ->
         IF \A i \in 1..Len(v.s) : IsIndex(<<v.s[i]>>) THEN Num(DigitsValue(v.s)) ELSE NaN
    [] v.t \in {"object", "function"} -> NaN
    [] v.t = "array" ->
         IF Len(v.a) = 0 THEN Num(0)
         ELSE IF Len(v.a) > 1 THEN NaN
         ELSE IF IsNullish(v.a[1]) THEN Num(0)
         ELSE IF v.a[1].t = "boolean" THEN NaN
         ELSE ToNumber(v.a[1])

isNaN(v) == ToNumber(v) = NaN

\* v - n
Minus(v, n) == IF isNaN(v) THEN NaN ELSE Num(ToNumber(v).n - n)

\* v + n for a natural number n: concatenation when v is a string
Plus(v, n) ==
  IF v.t = "string" THEN Str(v.s \o Decimal(n))
  ELSE IF isNaN(v) THEN NaN ELSE Num(ToNumber(v).n + n)

\* a ?? b
Coalesce(a, b) == IF IsNullish(a) THEN b ELSE a

\* -b for a number b
Negate(b) ==
  CASE b = NaN -> NaN
    [] IsInfinity(b) -> Infinity(0 - b.inf)
    [] IsMaxValue(b) -> MaxValue(0 - b.max)
    [] OTHER -> Num(0 - b.n)

\* a + b for numbers in double precision: the sum of two integers of small
\* magnitude is exact; Number.MAX_VALUE absorbs a small addend, doubles to
\* an infinity and cancels against its negative; an infinity absorbs every
\* finite addend, and the sum of opposite infinities is NaN
NumberPlus(a, b) ==
  IF a = NaN \/ b = NaN THEN NaN
  ELSE IF IsInfinity(a) /\ IsInfinity(b) THEN (IF a.inf = b.inf THEN a ELSE NaN)
  ELSE IF IsInfinity(a) THEN a
  ELSE IF IsInfinity(b) THEN b
  ELSE IF IsMaxValue(a) /\ IsMaxValue(b) THEN (IF a.max = b.max THEN Infinity(a.max) ELSE Num(0))
  ELSE IF IsMaxValue(a) THEN a
  ELSE IF IsMaxValue(b) THEN b
  ELSE Num(a.n + b.n)

\* a - b for numbers
NumberMinus(a, b) == NumberPlus(a, Negate(b))

-----------------------------------------------------------------------------
(* Database methods built on get, set and delete (lib/Database.js).  An    *)
(* undefined element of an array of the tree is the hole a delete left.    *)
(* The keys drawn for rename have no index and no length segment, so that  *)
(* the container of the last segment of a key that resolves is a mapping.  *)

ZeroIv == [i \in 1..IvLen |-> 0]

\* a method that never saves after set returned
AutoSaveNever(cfg) == 0

\* the save() a method makes itself after set returned
AutoSave(cfg) == IF cfg.autoSave THEN 1 ELSE 0

RECURSIVE ReplaceAt(_, _, _)
\* the tree v after the value its path keys refers to was changed in place
\* into new
ReplaceAt(v, keys, new) ==
  IF keys = <<>> THEN new
  ELSE WithChild(v, keys[1], ReplaceAt(Prop(v, keys[1]), Tail(keys), new))

\* math adding the value whatever the operation
mathAdding(d, cfg, operation, key, value) ==
  IF isNaN(value) \/ value = Infinity(1) THEN Outcome(d, "InvalidValue", Undefined, 0)
  ELSE IF ~isValidKey(key) THEN Outcome(d, "InvalidKey", Undefined, 0)
  ELSE LET keys == Split(key.s)
           found == GetPath(d, keys)
           existingData == IF Truthy(found) THEN found ELSE Num(0)
       IN IF TypeOf(value) # "number" THEN Outcome(d, "InvalidValue", Undefined, 0)
          ELSE IF TypeOf(existingData) \notin {"undefined", "number"}
            THEN Outcome(d, "InvalidValue", Undefined, 0)
          ELSE LET result == IF operation = "add" THEN NumberPlus(existingData, value)
                             ELSE NumberPlus(existingData, value)
                   r == set(d, cfg, key, result, FALSE, FALSE, ZeroIv)
               IN Outcome(r.data, "none", GetPath(r.data, <<keys[1]>>), r.writes + AutoSave(cfg))

\* Database.#math(operation, key, value), behind add and subtract
math(d, cfg, operation, key, value) ==
  IF isNaN(value) \/ value = Infinity(1) THEN Outcome(d, "InvalidValue", Undefined, 0)
  ELSE IF ~isValidKey(key) THEN Outcome(d, "InvalidKey", Undefined, 0)
  ELSE LET keys == Split(key.s)
           found == GetPath(d, keys)
           existingData == IF Truthy(found) THEN found ELSE Num(0)
       IN IF TypeOf(value) # "number" THEN Outcome(d, "InvalidValue", Undefined, 0)
          ELSE IF TypeOf(existingData) \notin {"undefined", "number"}
            THEN Outcome(d, "InvalidValue", Undefined, 0)
          ELSE LET result == IF operation = "add" THEN NumberPlus(existingData, value)
                             ELSE NumberMinus(existingData, value)
                   r == set(d, cfg, key, result, FALSE, FALSE, ZeroIv)
               IN Outcome(r.data, "none", GetPath(r.data, <<keys[1]>>), r.writes + AutoSave(cfg))

\* Database.push(key, value)
push(d, cfg, key, value) ==
  IF ~isValidKey(key) THEN Outcome(d, "InvalidKey", Undefined, 0)
  ELSE IF value = Undefined THEN Outcome(d, "MissingValue", Undefined, 0)
  ELSE LET keys == Split(key.s)
           found == GetPath(d, keys)
           oldArray == Coalesce(found, Arr(<<>>))
           pushed == Arr(Append(oldArray.a, value))
           \* an array found in the tree grows in place and set finds it stored
           r == IF IsNullish(found)
                  THEN set(d, cfg, key, pushed, FALSE, FALSE, ZeroIv)
                  ELSE set(ReplaceAt(d, keys, pushed), cfg, key, pushed, FALSE, TRUE, ZeroIv)
       IN IF oldArray.t # "array" THEN Outcome(d, "NotAnArray", Undefined, 0)
          ELSE Outcome(r.data, "none", GetPath(r.data, <<keys[1]>>), r.writes + AutoSave(cfg))

\* the filter of pull: does the element v stay when value is pulled
PullKeeps(v, value) ==
  IF TypeOf(v) = "object" THEN JsonForm(v) # JsonForm(value)
  ELSE ~StrictEquals(v, value, FALSE)

\* Database.pull(key, value); filter passes over the holes of the array
pull(d, cfg, key, value) ==
  IF ~isValidKey(key) THEN Outcome(d, "InvalidKey", Undefined, 0)
  ELSE IF value = Undefined THEN Outcome(d, "MissingValue", Undefined, 0)
  ELSE LET keys == Split(key.s)
           oldArray == Coalesce(GetPath(d, keys), Arr(<<>>))
           filtered == Arr(SelectSeq(oldArray.a, LAMBDA v : v # Undefined /\ PullKeeps(v, value)))
           r == set(d, cfg, key, filtered, FALSE, FALSE, ZeroIv)
       IN IF oldArray.t # "array" THEN Outcome(d, "NotAnArray", Undefined, 0)
          ELSE Outcome(r.data, "none", GetPath(r.data, <<keys[1]>>), r.writes + AutoSave(cfg))

\* newName.includes('.')
Dotted(name) == \E i \in 1..Len(name.s) : name.s[i] = "."

\* rename leaving the value under its old name as well
renameKeepOld(d, cfg, key, newName) ==
  IF ~isValidKey(key) THEN Outcome(d, "InvalidKey", Undefined, 0)
  ELSE IF ~isValidKey(newName) THEN Outcome(d, "InvalidName", Undefined, 0)
  ELSE LET keys == Split(key.s)
           parent == SubSeq(keys, 1, Len(keys) - 1)
           found == GetPath(d, keys)
           o == GetPath(d, parent)
       IN IF found = Undefined THEN Outcome(d, "KeyNotFound", Undefined, 0)
          ELSE IF Dotted(newName)
            THEN LET r == set(d, cfg, newName, found, FALSE, newName = key, ZeroIv)
                 IN Outcome(r.data, "none", GetPath(r.data, parent), r.writes + AutoSave(cfg))
          ELSE IF o.t = "string" THEN Outcome(d, "TypeError", Undefined, 0)
          ELSE LET after == ReplaceAt(d, parent, Obj(ObjPut(o.m, newName.s, found)))
               IN Outcome(after, "none", GetPath(after, parent), AutoSave(cfg))

\* Database.rename(key, newName); in strict mode the assignment of a
\* property to a string throws a TypeError
rename(d, cfg, key, newName) ==
  IF ~isValidKey(key) THEN Outcome(d, "InvalidKey", Undefined, 0)
  ELSE IF ~isValidKey(newName) THEN Outcome(d, "InvalidName", Undefined, 0)
  ELSE LET keys == Split(key.s)
           parent == SubSeq(keys, 1, Len(keys) - 1)
           found == GetPath(d, keys)
           o == GetPath(d, parent)
       IN IF found = Undefined THEN Outcome(d, "KeyNotFound", Undefined, 0)
          ELSE IF Dotted(newName)
            THEN LET r == set(d, cfg, newName, found, FALSE, newName = key, ZeroIv)
                     del == delete(r.data, cfg, key)
                 IN IF del.err # "none" THEN Outcome(del.data, del.err, Undefined, r.writes)
                    ELSE Outcome(del.data, "none", GetPath(del.data, parent),
                                 r.writes + del.writes + AutoSave(cfg))
          ELSE IF o.t = "string" THEN Outcome(d, "TypeError", Undefined, 0)
          ELSE LET after == ReplaceAt(d, parent,
                                      Obj(ObjDelete(ObjPut(o.m, newName.s, found), keys[Len(keys)])))
               IN Outcome(after, "none", GetPath(after, parent), AutoSave(cfg))

\* a callback applied to arg: [throws, arg: the argument afterwards, ret: the
\* value returned].  d => d[field] = value and d => delete d[field] change
\* a mapping in place; () => value returns value; a callback may throw at
\* once, or after it has assigned d[field] = value
Invoke(callback, arg) ==
  CASE callback.kind = "assign" ->
         [throws |-> FALSE, ret |-> callback.value,
          arg |-> IF arg.t = "object" THEN Obj(ObjPut(arg.m, callback.field, callback.value)) ELSE arg]
    [] callback.kind = "delete" ->
         [throws |-> FALSE, ret |-> Bool(TRUE),
          arg |-> IF arg.t = "object" THEN Obj(ObjDelete(arg.m, callback.field)) ELSE arg]
    [] callback.kind = "const" -> [throws |-> FALSE, ret |-> callback.value, arg |-> arg]
    [] callback.kind = "throw" -> [throws |-> TRUE, ret |-> Undefined, arg |-> arg]
    [] callback.kind = "assignThenThrow" ->
         [throws |-> TRUE, ret |-> Undefined,
          arg |-> IF arg.t = "object" THEN Obj(ObjPut(arg.m, callback.field, callback.value)) ELSE arg]

\* update storing what the callback returned, whatever the value at key
updateStoreReturn(d, cfg, key, callback) ==
  IF ~isValidKey(key) THEN Outcome(d, "InvalidKey", Undefined, 0)
  ELSE IF TypeOf(callback) # "function" THEN Outcome(d, "InvalidCallback", Undefined, 0)
  ELSE LET keys == Split(key.s)
           found == GetPath(d, keys)
           c == Invoke(callback, found)
           r == set(d, cfg, key, c.ret, FALSE, FALSE, ZeroIv)
       IN IF found = Undefined THEN Outcome(d, "KeyNotFound", Undefined, 0)
          ELSE IF c.throws THEN Outcome(d, "UpdateCallbackFailed", Undefined, 0)
          ELSE Outcome(r.data, "none", GetPath(r.data, <<keys[1]>>), r.writes + AutoSave(cfg))

\* Database.update(key, callback)
update(d, cfg, key, callback) ==
  IF ~isValidKey(key) THEN Outcome(d, "InvalidKey", Undefined, 0)
  ELSE IF TypeOf(callback) # "function" THEN Outcome(d, "InvalidCallback", Undefined, 0)
  ELSE LET keys == Split(key.s)
           found == GetPath(d, keys)
           c == Invoke(callback, found)
           \* a mapping was changed in place and set finds it stored
           r == IF isObject(found)
                  THEN set(ReplaceAt(d, keys, c.arg), cfg, key, c.arg, FALSE, TRUE, ZeroIv)
                  ELSE set(d, cfg, key, c.ret, FALSE, FALSE, ZeroIv)
       IN IF found = Undefined THEN Outcome(d, "KeyNotFound", Undefined, 0)
          \* what the callback did to a mapping before it threw stays
          ELSE IF c.throws
            THEN Outcome(IF isObject(found) THEN ReplaceAt(d, keys, c.arg) ELSE d,
                         "UpdateCallbackFailed", Undefined, 0)
          ELSE Outcome(r.data, "none", GetPath(r.data, <<keys[1]>>), r.writes + AutoSave(cfg))

-----------------------------------------------------------------------------
(* Inputs of rename, add, subtract, push, pull and update                  *)

Kc == Str(<<"c">>)
Kcb == Str(<<"c", ".", "b">>)

OpKeys == {Ka, Kab, KaDotDotb}
NewNames == {Ka, Kc, Kab, Kcb, KaDotDotb}

\* { a: 1, b: 1 } and the same mapping with its properties in the other order
MapAB == Obj(<<<<A, Num(1)>>, <<B, Num(1)>>>>)
MapBA == Obj(<<<<B, Num(1)>>, <<A, Num(1)>>>>)

\* the calls of add and of subtract drawn
MathCalls ==
  {[key |-> Ka, value |-> v] :
     v \in {Num(1), MaxValue(1), Infinity(1), Infinity(-1), NaN, Undefined, Null}}
  \cup {[key |-> Kab, value |-> v] : v \in {Num(1), MaxValue(1)}}
  \cup {[key |-> KaDotDotb, value |-> v] : v \in {Num(1), NaN}}

\* the calls of push and of pull drawn
ArrayCalls ==
  {[key |-> Ka, value |-> v] : v \in {Num(1), MapBA, Undefined}}
  \cup {[key |-> Kab, value |-> Num(1)]}
  \cup {[key |-> KaDotDotb, value |-> v] : v \in {Num(1), Undefined}}

\* d => d.b = 2, d => delete d.b, a callback that throws, a callback that
\* assigns d.b = 2 and then throws, and null
UpdateCallbacks ==
  {[t |-> "function", kind |-> "assign", field |-> B, value |-> Num(2)],
   [t |-> "function", kind |-> "delete", field |-> B],
   [t |-> "function", kind |-> "throw"],
   [t |-> "function", kind |-> "assignThenThrow", field |-> B, value |-> Num(2)],
   Null}

UpdateCalls ==
  {[key |-> k, callback |-> c] : k \in {Ka, Kab}, c \in UpdateCallbacks}
  \cup {[key |-> KaDotDotb, callback |-> [t |-> "function", kind |-> "delete", field |-> B]]}

\* the content of the data file when the database is constructed
InitOpFiles ==
  {[exists |-> FALSE, content |-> Undefined],
   [exists |-> TRUE, content |-> Obj(<<<<A, Obj(<<<<B, Num(1)>>>>)>>>>)],
   [exists |-> TRUE, content |-> Obj(<<<<A, Arr(<<Num(1), MapAB, Num(1)>>)>>>>)],
   [exists |-> TRUE, content |-> Obj(<<<<A, Null>>>>)]}

-----------------------------------------------------------------------------
(* The database under rename, add, subtract, push, pull and update         *)

\* new Database(config) without an encryption key
InitOps ==
  /\ dbConfig \in [autoSave : BOOLEAN, encryptionKey : {Null}]
  /\ dataFile \in InitOpFiles
  /\ data = checkJSON(dataFile)
  /\ collections = <<>>
  /\ colFolder = NoFolder

\* the tree and the file after a call with outcome r
ApplyOp(r) ==
  /\ calls < MaxOpCalls
  /\ calls' = calls + 1
  /\ data' = r.data
  /\ dataFile' = IF r.writes > 0 THEN Written(r.data) ELSE dataFile
  /\ UNCHANGED <<dbConfig, collections, colFolder>>

\* what a call on key leaves in last: the key, whether it resolved, the
\* value it resolved to, and the outcome r
Record(op, key, r) ==
  [op |-> op, key |-> key,
   had |-> isValidKey(key) /\ Exists(data, key),
   prev |-> IF isValidKey(key) THEN GetPath(data, Split(key.s)) ELSE Undefined,
   err |-> r.err, ret |-> r.ret, writes |-> r.writes]

Rename ==
  \E key \in OpKeys, newName \in NewNames :
    /\ LET r == rename(data, dbConfig, key, newName)
       IN /\ ApplyOp(r)
          /\ last' = Record("rename", key, r) @@ [newName |-> newName]
    /\ UNCHANGED colVars

Add ==
  \E call \in MathCalls :
    /\ LET r == math(data, dbConfig, "add", call.key, call.value)
       IN /\ ApplyOp(r)
          /\ last' = Record("add", call.key, r) @@ [value |-> call.value]
    /\ UNCHANGED colVars

Subtract ==
  \E call \in MathCalls :
    /\ LET r == math(data, dbConfig, "subtract", call.key, call.value)
       IN /\ ApplyOp(r)
          /\ last' = Record("subtract", call.key, r) @@ [value |-> call.value]
    /\ UNCHANGED colVars

Push ==
  \E call \in ArrayCalls :
    /\ LET r == push(data, dbConfig, call.key, call.value)
       IN /\ ApplyOp(r)
          /\ last' = Record("push", call.key, r) @@ [value |-> call.value]
    /\ UNCHANGED colVars

Pull ==
  \E call \in ArrayCalls :
    /\ LET r == pull(data, dbConfig, call.key, call.value)
       IN /\ ApplyOp(r)
          /\ last' = Record("pull", call.key, r) @@ [value |-> call.value]
    /\ UNCHANGED colVars

DbUpdate ==
  \E call \in UpdateCalls :
    /\ LET r == update(data, dbConfig, call.key, call.callback)
       IN /\ ApplyOp(r)
          /\ last' = Record("update", call.key, r) @@ [callback |-> call.callback]
    /\ UNCHANGED colVars

NextOps == Rename \/ Add \/ Subtract \/ Push \/ Pull \/ DbUpdate

\* a database constructed, no collection created, no call made
StartOps == InitOps /\ NoCollection /\ last = NoCall /\ calls = 0

\* the database under the methods built on get, set and delete
SpecOps == StartOps /\ [][NextOps]_vars

-----------------------------------------------------------------------------
(* Collection methods (lib/Collection.js)                                  *)

Sigil == "$"
IdName == <<"i", "d">>
SigilIdName == <<Sigil>> \o IdName
ContentName == <<"c", "o", "n", "t", "e", "n", "t">>
CreatedAt == <<"c", "r", "e", "a", "t", "e", "d", "A", "t">>
UpdatedAt == <<"u", "p", "d", "a", "t", "e", "d", "A", "t">>
UuidName == <<"_", "_", "i", "d">>
SaveName == <<"s", "a", "v", "e">>

\* name.startsWith('$')
StartsWithSigil(name) == Len(name) >= 1 /\ name[1] = Sigil

RECURSIVE PutAll(_, _)
\* { ...m, ...more }
PutAll(m, more) ==
  IF more = <<>> THEN m ELSE PutAll(ObjPut(m, more[1][1], more[1][2]), Tail(more))

RECURSIVE checkEntryFromNoOffset(_, _, _, _, _)
\* checkEntryFrom leaving the position in the batch out of the sum
checkEntryFromNoOffset(entries, defaults, entry, bulkIndex, i) ==
  IF i > Len(defaults) THEN entry
  ELSE LET name == defaults[i][1]
           default == defaults[i][2]
           propertyName == Tail(name)
           validEntries == SelectSeq(entries, LAMBDA e : ObjHas(e.m, propertyName))
           lastValue == Coalesce(IF validEntries = <<>> THEN Undefined
                                 ELSE Prop(validEntries[Len(validEntries)], propertyName),
                                 Minus(default, 1))
           filled ==
             IF ObjHas(entry, name) THEN entry
             ELSE IF StartsWithSigil(name)
               THEN ObjPut(entry, propertyName,
                           IF isNaN(lastValue) THEN default ELSE Plus(lastValue, 1))
               ELSE ObjPut(entry, name, default)
       IN checkEntryFromNoOffset(entries, defaults, filled, bulkIndex, i + 1)

RECURSIVE checkEntryFrom(_, _, _, _, _)
\* the loop of #checkEntry from template position i on: the entry with
\* the defaults filled in
checkEntryFrom(entries, defaults, entry, bulkIndex, i) ==
  IF i > Len(defaults) THEN entry
  ELSE LET name == defaults[i][1]
           default == defaults[i][2]
           propertyName == Tail(name)
           validEntries == SelectSeq(entries, LAMBDA e : ObjHas(e.m, propertyName))
           lastValue == Coalesce(IF validEntries = <<>> THEN Undefined
                                 ELSE Prop(validEntries[Len(validEntries)], propertyName),
                                 Minus(default, 1))
           filled ==
             IF ObjHas(entry, name) THEN entry
             ELSE IF StartsWithSigil(name)
               THEN ObjPut(entry, propertyName,
                           IF isNaN(lastValue) THEN default ELSE Plus(Plus(lastValue, 1), bulkIndex))
               ELSE ObjPut(entry, name, default)
       IN checkEntryFrom(entries, defaults, filled, bulkIndex, i + 1)

\* #checkEntry(entry, bulkIndex) on a mapping: the properties of entry afterwards
checkEntry(entries, defaults, entry, bulkIndex) ==
  checkEntryFrom(entries, defaults, entry.m, bulkIndex, 1)

\* { createdAt: now, updatedAt: now } when timestamps are on, else {}
Stamps(cfg, now) ==
  IF cfg.timestamps THEN <<<<CreatedAt, Num(now)>>, <<UpdatedAt, Num(now)>>>> ELSE <<>>

\* the n-th value of randomUUID()
Uuid(n) == Str(<<"u">> \o Decimal(n))

\* the defaults spread first into what create and createBulk return: the
\* template properties whose name is not a template property name
ReturnedDefaults(defaults) == SelectSeq(defaults, LAMBDA p : ~ObjHas(defaults, p[1]))

\* the collection's file after Collection.save() wrote entries
WrittenEntries(entries) == [exists |-> TRUE, content |-> JsonForm(Arr(entries))]

\* a filter function applied to an entry
Matches(filter, e) ==
  CASE filter.kind = "all" -> TRUE
    [] filter.kind = "eq" -> StrictEquals(Prop(e, filter.field), filter.value, FALSE)

\* an update callback applied to an entry: it assigns a field, or it is
\* the callback of reset, which assigns the default to every property of
\* the entry that defaults has, createdAt and updatedAt apart
Updated(callback, e) ==
  IF callback.kind = "assign" THEN Obj(ObjPut(e.m, callback.field, callback.value))
  ELSE Obj([i \in 1..Len(e.m) |->
              IF ObjHas(callback.defaults, e.m[i][1]) /\ e.m[i][1] \notin {CreatedAt, UpdatedAt}
                THEN <<e.m[i][1], ObjGet(callback.defaults, e.m[i][1])>>
                ELSE e.m[i]])

\* #checkFunction(filter): does it accept the argument
checkFunction(filter) == TypeOf(filter) = "function"

\* entries.find(filter): the position of the first entry that matches, 0
\* when none does
Find(entries, filter) ==
  IF \E i \in 1..Len(entries) : Matches(filter, entries[i])
    THEN CHOOSE i \in 1..Len(entries) :
           Matches(filter, entries[i]) /\ \A j \in 1..(i - 1) : ~Matches(filter, entries[j])
    ELSE 0

\* the entry replaced by an object that holds the save function alone
WithSaveAlone(e) == Obj(<<<<SaveName, Fn>>>>)

\* entry.save = () => ...: the entry with its save function
WithSave(e) == Obj(ObjPut(e.m, SaveName, Fn))

\* Collection.get(filter): [entries: #data afterwards, err, ret]
collectionGet(entries, filter) ==
  IF ~checkFunction(filter) THEN [entries |-> entries, err |-> "InvalidFilter", ret |-> Undefined]
  ELSE LET i == Find(entries, filter)
       IN IF i = 0 THEN [entries |-> entries, err |-> "none", ret |-> Null]
          ELSE [entries |-> [j \in 1..Len(entries) |->
                               IF j = i THEN WithSave(entries[j]) ELSE entries[j]],
                err |-> "none", ret |-> WithSave(entries[i])]

\* Collection.has(filter)
collectionHas(entries, filter) ==
  LET r == collectionGet(entries, filter)
  IN IF r.err # "none" THEN r
     ELSE [entries |-> r.entries, err |-> "none", ret |-> Bool(Truthy(r.ret))]

\* Collection.create(data) at time now, the n-th uuid drawn:
\* [entries: #data afterwards, err, ret]
create(entries, defaults, cfg, now, n, partial) ==
  IF ~isObject(partial) THEN [entries |-> entries, err |-> "InvalidEntry", ret |-> Undefined]
  ELSE LET checked == checkEntry(entries, defaults, partial, 0)
           entry == Obj(PutAll(PutAll(checked, Stamps(cfg, now)),
                               <<<<UuidName, Uuid(n)>>>>))
       IN [entries |-> Append(entries, entry), err |-> "none",
           ret |-> Obj(PutAll(ReturnedDefaults(defaults), entry.m))]

\* getOrCreate answering get(filter) once the entry is created
getOrCreateRerun(entries, defaults, cfg, now, n, filter, partial) ==
  LET h == collectionHas(entries, filter)
  IN IF h.err # "none" THEN h @@ [created |-> FALSE]
     ELSE IF ~Truthy(h.ret)
       THEN LET c == create(entries, defaults, cfg, now, n, partial)
            IN IF c.err # "none" THEN c @@ [created |-> FALSE]
               ELSE collectionGet(c.entries, filter) @@ [created |-> TRUE]
       ELSE collectionGet(h.entries, filter) @@ [created |-> FALSE]

\* Collection.getOrCreate(filter, data): [entries, err, ret, created]; the
\* entry it creates is returned as a copy of what create returned, with a
\* save function
getOrCreate(entries, defaults, cfg, now, n, filter, partial) ==
  LET h == collectionHas(entries, filter)
  IN IF h.err # "none" THEN h @@ [created |-> FALSE]
     ELSE IF ~Truthy(h.ret)
       THEN LET newEntry == create(entries, defaults, cfg, now, n, partial)
            IN IF newEntry.err # "none" THEN newEntry @@ [created |-> FALSE]
               ELSE [entries |-> newEntry.entries, err |-> "none",
                     ret |-> WithSave(newEntry.ret), created |-> TRUE]
       ELSE collectionGet(h.entries, filter) @@ [created |-> FALSE]

\* the positions of the entries a filter function matches, in order
Matching(entries, filter) == {i \in 1..Len(entries) : Matches(filter, entries[i])}

\* the entries at the positions of P, in order
At(entries, P) ==
  LET RECURSIVE from(_)
      from(i) == IF i > Len(entries) THEN <<>>
                 ELSE (IF i \in P THEN <<entries[i]>> ELSE <<>>) \o from(i + 1)
  IN from(1)

\* the entries with a save function on those at the positions of P
SaveOn(entries, P) ==
  [i \in 1..Len(entries) |-> IF i \in P THEN WithSave(entries[i]) ELSE entries[i]]

\* Collection.getMany(filter): [entries, err, ret]
getMany(entries, filter) ==
  IF ~checkFunction(filter) THEN [entries |-> entries, err |-> "InvalidFilter", ret |-> Undefined]
  ELSE LET P == Matching(entries, filter)
       IN [entries |-> SaveOn(entries, P), err |-> "none",
           ret |-> Arr(At(SaveOn(entries, P), P))]

\* Collection.getAll(): the array returned is #data itself
getAll(entries) ==
  LET all == SaveOn(entries, 1..Len(entries))
  IN [entries |-> all, err |-> "none", ret |-> Arr(all)]

\* #fetchData(): the entries parsed from the file, and the file afterwards;
\* a missing file (ENOENT) is created holding []
fetchData(file) ==
  IF file.exists THEN [entries |-> file.content.a, file |-> file]
  ELSE [entries |-> <<>>, file |-> WrittenEntries(<<>>)]

\* fetch answering from #data
fetchCached(entries, file, filter) ==
  collectionGet(entries, filter) @@ [file |-> file]

\* Collection.fetch(filter): [entries: #data afterwards, file, err, ret]
fetch(entries, file, filter) ==
  IF ~checkFunction(filter)
    THEN [entries |-> entries, file |-> file, err |-> "InvalidFilter", ret |-> Undefined]
    ELSE LET fd == fetchData(file)
             i == Find(fd.entries, filter)
         IN [entries |-> entries, file |-> fd.file, err |-> "none",
             ret |-> IF i = 0 THEN Null ELSE WithSave(fd.entries[i])]

\* Collection.fetchAll()
fetchAll(entries, file) ==
  LET fd == fetchData(file)
  IN [entries |-> entries, file |-> fd.file, err |-> "none",
      ret |-> Arr(SaveOn(fd.entries, 1..Len(fd.entries)))]

\* Collection.fetchMany(filter)
fetchMany(entries, file, filter) ==
  IF ~checkFunction(filter)
    THEN [entries |-> entries, file |-> file, err |-> "InvalidFilter", ret |-> Undefined]
    ELSE LET fd == fetchData(file)
             P == Matching(fd.entries, filter)
         IN [entries |-> entries, file |-> fd.file, err |-> "none",
             ret |-> Arr(At(SaveOn(fd.entries, P), P))]

\* What document.__id is compared with in the filter a save function hands
\* to #saveSpecific: the __id of the entry the function closes over.
\*   Entry: the entry returned itself (get, fetch: const entry)
\*   Captured(v): an object the caller cannot reach, whose __id is v
\*                (getOrCreate: newEntry)
\*   DataAt(i): data[i] of the array #data (getAll: var i after the loop)
\*   Beyond: filtered[i] with i the length of an array of the call's own
\*           (getMany, fetchMany, fetchAll: var i after the loop): undefined
Entry == [kind |-> "entry"]
Captured(v) == [kind |-> "captured", value |-> v]
DataAt(i) == [kind |-> "data", i |-> i]
Beyond == [kind |-> "beyond"]

\* the entry a caller keeps: pos is its position in #data, or 0 when it is
\* not an object of #data and obj holds it; id is what its save closes over
Handle(via, pos, obj, id) ==
  [via |-> via, pos |-> pos, obj |-> obj, id |-> id, changed |-> FALSE, uses |-> 0]

\* the object a handle refers to
HeldObject(entries, h) == IF h.pos > 0 THEN entries[h.pos] ELSE h.obj

\* the value of <closed-over entry>.__id when the filter runs:
\* [throws, value]; reading __id of undefined throws a TypeError
ClosureId(entries, h) ==
  IF h.id.kind = "entry"
    THEN [throws |-> FALSE, value |-> Prop(HeldObject(entries, h), UuidName)]
  ELSE IF h.id.kind = "captured" THEN [throws |-> FALSE, value |-> h.id.value]
  ELSE IF h.id.kind = "data" /\ h.id.i < Len(entries)
    THEN [throws |-> FALSE, value |-> Prop(entries[h.id.i + 1], UuidName)]
  ELSE [throws |-> TRUE, value |-> Undefined]

\* #saveSpecific(document => document.__id === <closed-over entry>.__id):
\* [entries, file, err]
saveSpecific(entries, file, cfg, now, id) ==
  LET fd == fetchData(file)
      isTarget(d) == StrictEquals(Prop(d, UuidName), id.value, FALSE)
      P == {i \in 1..Len(entries) : isTarget(entries[i])}
      stamped == [i \in 1..Len(entries) |->
                    IF i \in P /\ cfg.timestamps
                      THEN Obj(ObjPut(entries[i].m, UpdatedAt, Num(now)))
                      ELSE entries[i]]
      nonTargetData == SelectSeq(fd.entries, LAMBDA d : ~isTarget(d))
  IN IF id.throws /\ entries # <<>>
       THEN [entries |-> entries, file |-> file, err |-> "TypeError"]
     ELSE IF id.throws /\ fd.entries # <<>>
       THEN [entries |-> entries, file |-> fd.file, err |-> "TypeError"]
     ELSE [entries |-> stamped, file |-> WrittenEntries(nonTargetData \o At(stamped, P)),
           err |-> "none"]

\* a filter parameter with the default () => true
Default(filter) == IF filter = Undefined THEN [t |-> "function", kind |-> "all"] ELSE filter

\* remove taking out the first matching entry only
removeFirst(entries, filter) ==
  IF ~checkFunction(Default(filter))
    THEN [entries |-> entries, err |-> "InvalidFilter", ret |-> Undefined]
    ELSE LET i == Find(entries, Default(filter))
         IN [entries |-> At(entries, (1..Len(entries)) \ {i}), err |-> "none",
             ret |-> Arr(At(entries, {i}))]

\* Collection.remove(filter): [entries, err, ret]; filtered.includes(d)
\* holds of the very objects the filter matched
remove(entries, filter) ==
  IF ~checkFunction(Default(filter))
    THEN [entries |-> entries, err |-> "InvalidFilter", ret |-> Undefined]
    ELSE LET filtered == Matching(entries, Default(filter))
         IN [entries |-> At(entries, (1..Len(entries)) \ filtered), err |-> "none",
             ret |-> Arr(At(entries, filtered))]

\* update calling the callback before it stamps updatedAt
collectionUpdateStampLast(entries, cfg, now, updateCallback, filter) ==
  IF ~checkFunction(updateCallback) \/ ~checkFunction(Default(filter))
    THEN [entries |-> entries, err |-> "InvalidFilter", ret |-> Undefined,
          saves |-> FALSE, invoked |-> <<>>]
    ELSE LET newData == Matching(entries, Default(filter))
             stamp(e) == IF cfg.timestamps THEN Obj(ObjPut(e.m, UpdatedAt, Num(now))) ELSE e
             after == [i \in 1..Len(entries) |->
                         IF i \in newData THEN stamp(Updated(updateCallback, entries[i]))
                         ELSE entries[i]]
         IN [entries |-> after, err |-> "none", ret |-> Arr(At(after, newData)),
             saves |-> cfg.autoSave /\ newData # {},
             invoked |-> At([i \in 1..Len(entries) |-> [pos |-> i, arg |-> entries[i]]], newData)]

\* Collection.update(updateCallback, filter):
\* [entries, err, ret, saves: is save() called, invoked: the calls of
\*  updateCallback in order, each with the position of the entry in #data
\*  and the entry as the callback receives it]
collectionUpdate(entries, cfg, now, updateCallback, filter) ==
  IF ~checkFunction(updateCallback) \/ ~checkFunction(Default(filter))
    THEN [entries |-> entries, err |-> "InvalidFilter", ret |-> Undefined,
          saves |-> FALSE, invoked |-> <<>>]
    ELSE LET newData == Matching(entries, Default(filter))
             stamped(i) == IF cfg.timestamps
                             THEN Obj(ObjPut(entries[i].m, UpdatedAt, Num(now)))
                             ELSE entries[i]
             after == [i \in 1..Len(entries) |->
                         IF i \in newData THEN Updated(updateCallback, stamped(i))
                         ELSE entries[i]]
         IN [entries |-> after, err |-> "none", ret |-> Arr(At(after, newData)),
             saves |-> cfg.autoSave /\ newData # {},
             invoked |-> At([i \in 1..Len(entries) |-> [pos |-> i, arg |-> stamped(i)]], newData)]

\* the callback reset hands to update: defaults are the template
\* properties whose name does not start with $
ResetCallback(defaults) ==
  [t |-> "function", kind |-> "reset",
   defaults |-> SelectSeq(defaults, LAMBDA p : ~StartsWithSigil(p[1]))]

\* reset assigning every default, whether the entry has the property or not
resetAll(entries, defaults, cfg, now, filter) ==
  LET r == collectionUpdate(entries, cfg, now, ResetCallback(defaults), filter)
      literal == ResetCallback(defaults).defaults
      kept == SelectSeq(literal, LAMBDA p : p[1] \notin {CreatedAt, UpdatedAt})
      all(e) == Obj(PutAll(e.m, kept))
  IN IF r.err # "none" THEN r
     ELSE LET P == Matching(entries, Default(filter))
              after == [i \in 1..Len(entries) |-> IF i \in P THEN all(r.entries[i]) ELSE r.entries[i]]
          IN [r EXCEPT !.entries = after, !.ret = Arr(At(after, P))]

\* Collection.reset(filter)
reset(entries, defaults, cfg, now, filter) ==
  collectionUpdate(entries, cfg, now, ResetCallback(defaults), filter)

Orders(q) ==
  {[i \in 1..Len(q) |-> q[f[i]]] : f \in {g \in [1..Len(q) -> 1..Len(q)] : \A i, j \in 1..Len(q) : g[i] = g[j] => i = j}}

-----------------------------------------------------------------------------
(* Inputs of the collection                                                *)

Templates ==
  {<<<<SigilIdName, Num(0)>>, <<ContentName, Str(<<"x">>)>>>>,
   <<<<SigilIdName, Num(5)>>>>}

PContent == Obj(<<<<ContentName, Hi>>>>)
PId == Obj(<<<<IdName, Num(7)>>>>)
PSigilId == Obj(<<<<SigilIdName, Num(7)>>>>)

Partials == {PContent, PId, PSigilId, Null}

Bulks ==
  {Arr(q) : q \in UNION {[1..n -> {PContent, PId}] : n \in 0..MaxBulk}}
  \cup {Arr(<<PContent, Null>>), Null}

\* what random is called with: nothing, null, a number
Amounts == {Undefined, Null, Num(0), Num(1), Num(2), NaN}

MatchAll == [t |-> "function", kind |-> "all"]
Filters == {MatchAll, [t |-> "function", kind |-> "eq", field |-> ContentName, value |-> Hi]}

\* what get and has are called with: a filter, nothing, or null
FilterArguments == Filters \cup {Undefined, Null}

Callbacks ==
  {[t |-> "function", kind |-> "assign", field |-> IdName, value |-> Str(<<"x">>)],
   [t |-> "function", kind |-> "assign", field |-> ContentName, value |-> Str(<<>>)]}

\* what update is called with as its callback: a function or null
CallbackArguments == Callbacks \cup {Null}

\* the value a caller assigns to the content of an entry it holds
NewContent == Str(<<"z">>)

\* the content of the collection's file when the collection is created:
\* no file, or the entries a former run saved
InitEntries ==
  {<<>>,
   <<Obj(<<<<IdName, Num(0)>>, <<UuidName, Str(<<"v", "0">>)>>>>),
     Obj(<<<<IdName, Num(1)>>, <<UuidName, Str(<<"v", "1">>)>>>>)>>}

-----------------------------------------------------------------------------
(* The collection: state after createCollection and public calls           *)

\* new Collection(name, config, defaultValues): #fetchData creates the file
\* with [] when there is none
InitCol ==
  /\ cDefaults \in Templates
  /\ cConfig \in [autoSave : BOOLEAN, timestamps : BOOLEAN]
  /\ cData \in InitEntries
  /\ cFile = WrittenEntries(cData)
  /\ totalEntries = Len(cData)
  /\ clock = 0
  /\ uuids = 0
  /\ pristine = (cData = <<>>)
  /\ held = NoHandle

\* the database is constructed and not called
IdleDb ==
  /\ data = Obj(<<>>)
  /\ dbConfig = [autoSave |-> TRUE, encryptionKey |-> Null]
  /\ dataFile = [exists |-> FALSE, content |-> Undefined]
  /\ collections = <<>>
  /\ colFolder = NoFolder

Call ==
  /\ calls < MaxColCalls
  /\ calls' = calls + 1
  /\ UNCHANGED <<dbVars, cDefaults, cConfig>>

\* a call that throws before it changes anything
Throws(call, err) ==
  /\ last' = call @@ [err |-> err, ret |-> Undefined]
  /\ UNCHANGED <<cData, totalEntries, cFile, uuids, pristine>>

\* the partial supplies neither an auto-increment field nor its template name
OmitsAuto(partial) ==
  \A i \in 1..Len(cDefaults) :
    StartsWithSigil(cDefaults[i][1]) =>
      ~ObjHas(partial.m, cDefaults[i][1]) /\ ~ObjHas(partial.m, Tail(cDefaults[i][1]))

\* Collection.create(data)
Create ==
  \E partial \in Partials :
    /\ Call
    /\ UNCHANGED <<clock, held>>
    /\ LET call == [op |-> "create", partial |-> partial]
           r == create(cData, cDefaults, cConfig, clock, uuids, partial)
       IN IF r.err # "none" THEN Throws(call, r.err)
          ELSE /\ Len(cData) < MaxEntries
               /\ cData' = r.entries
               /\ totalEntries' = Len(cData')
               /\ cFile' = IF cConfig.autoSave THEN WrittenEntries(cData') ELSE cFile
               /\ uuids' = uuids + 1
               /\ pristine' = (pristine /\ OmitsAuto(partial))
               /\ last' = call @@ [err |-> "none", ret |-> r.ret]

\* Collection.createBulk(entries)
CreateBulk ==
  \E bulk \in Bulks :
    /\ Call
    /\ UNCHANGED <<clock, held>>
    /\ LET call == [op |-> "createBulk", entries |-> bulk]
       IN IF bulk.t # "array" THEN Throws(call, "InvalidInput")
          ELSE IF \E i \in 1..Len(bulk.a) : ~isObject(bulk.a[i]) THEN Throws(call, "InvalidEntry")
          ELSE LET n == Len(bulk.a)
                   checked == [i \in 1..n |-> checkEntry(cData, cDefaults, bulk.a[i], i - 1)]
                   entry == Stamps(cConfig, clock)
               IN /\ Len(cData) + n <= MaxEntries
                  /\ cData' = cData \o [i \in 1..n |->
                                 Obj(PutAll(PutAll(checked[i], entry),
                                            <<<<UuidName, Uuid(uuids + i - 1)>>>>))]
                  /\ totalEntries' = Len(cData')
                  /\ cFile' = IF cConfig.autoSave THEN WrittenEntries(cData') ELSE cFile
                  /\ uuids' = uuids + n
                  /\ pristine' = (pristine /\ \A i \in 1..n : OmitsAuto(bulk.a[i]))
                  /\ last' = call @@ [err |-> "none",
                                      ret |-> Arr([i \in 1..n |->
                                                Obj(PutAll(PutAll(ReturnedDefaults(cDefaults), checked[i]), entry))])]

\* Collection.random(amount): #data.sort with a comparator that answers at
\* random leaves #data in any order; slice(0, NaN) is slice(0, 0)
Random ==
  \E argument \in Amounts :
    /\ Call
    /\ UNCHANGED <<clock, held>>
    /\ LET call == [op |-> "random", amount |-> argument]
           amount == IF argument = Undefined THEN Num(1) ELSE argument
       IN IF TypeOf(amount) # "number" \/ (IsInt(amount) /\ amount.n <= 0)
            THEN Throws(call, "InvalidAmount")
          ELSE IF IsInt(amount) /\ amount.n > Len(cData) THEN Throws(call, "AmountExceedsSize")
          ELSE \E sorted \in Orders(cData) :
                 LET randomS == SubSeq(sorted, 1, IF IsInt(amount) THEN amount.n ELSE 0)
                 IN /\ cData' = sorted
                    /\ pristine' = FALSE
                    /\ last' = call @@ [err |-> "none",
                                        ret |-> IF Len(randomS) = 1 THEN randomS[1] ELSE Arr(randomS)]
                    /\ UNCHANGED <<totalEntries, cFile, uuids>>

\* remove leaving totalEntries as it was
RemoveStale ==
  \E filter \in FilterArguments :
    /\ Call
    /\ UNCHANGED <<clock, held>>
    /\ LET call == [op |-> "remove", filter |-> filter]
           r == remove(cData, filter)
       IN IF r.err # "none" THEN Throws(call, r.err)
          ELSE /\ cData' = r.entries
               /\ cFile' = IF cConfig.autoSave THEN WrittenEntries(cData') ELSE cFile
               /\ pristine' = (cData' = <<>>)
               /\ last' = call @@ [err |-> "none", ret |-> r.ret]
               /\ UNCHANGED <<uuids, totalEntries>>

\* Collection.remove(filter)
Remove ==
  \E filter \in FilterArguments :
    /\ Call
    /\ UNCHANGED <<clock, held>>
    /\ LET call == [op |-> "remove", filter |-> filter]
           r == remove(cData, filter)
       IN IF r.err # "none" THEN Throws(call, r.err)
          ELSE /\ cData' = r.entries
               /\ totalEntries' = Len(cData')
               /\ cFile' = IF cConfig.autoSave THEN WrittenEntries(cData') ELSE cFile
               /\ pristine' = (cData' = <<>>)
               /\ last' = call @@ [err |-> "none", ret |-> r.ret]
               /\ UNCHANGED uuids

\* the collection after update or reset with outcome r
Changed(call, r) ==
  IF r.err # "none" THEN Throws(call @@ [saves |-> FALSE, invoked |-> <<>>], r.err)
  ELSE /\ cData' = r.entries
       /\ cFile' = IF r.saves THEN WrittenEntries(cData') ELSE cFile
       /\ totalEntries' = IF r.saves THEN Len(cData') ELSE totalEntries
       /\ pristine' = FALSE
       /\ last' = call @@ [err |-> "none", ret |-> r.ret, saves |-> r.saves,
                           invoked |-> r.invoked]
       /\ UNCHANGED uuids

\* Collection.update(updateCallback, filter)
Update ==
  \E callback \in CallbackArguments, filter \in FilterArguments :
    /\ Call
    /\ UNCHANGED <<clock, held>>
    /\ Changed([op |-> "update", callback |-> callback, filter |-> filter],
               collectionUpdate(cData, cConfig, clock, callback, filter))

\* Collection.reset(filter)
Reset ==
  \E filter \in FilterArguments :
    /\ Call
    /\ UNCHANGED <<clock, held>>
    /\ Changed([op |-> "reset", filter |-> filter],
               reset(cData, cDefaults, cConfig, clock, filter))

\* the caller keeps the entry at position k of #data: held afterwards
Keep(k, via, id) == held' = Handle(via, k, Undefined, id)

\* Collection.get(filter)
CollectionGet ==
  \E filter \in FilterArguments :
    /\ Call
    /\ LET r == collectionGet(cData, filter)
       IN /\ cData' = r.entries
          /\ last' = [op |-> "get", filter |-> filter, err |-> r.err, ret |-> r.ret]
          /\ IF r.err = "none" /\ r.ret # Null
               THEN Keep(Find(cData, filter), "get", Entry)
               ELSE UNCHANGED held
    /\ UNCHANGED <<totalEntries, cFile, clock, uuids, pristine>>

\* Collection.has(filter)
CollectionHas ==
  \E filter \in FilterArguments :
    /\ Call
    /\ LET r == collectionHas(cData, filter)
       IN /\ cData' = r.entries
          /\ last' = [op |-> "has", filter |-> filter, err |-> r.err, ret |-> r.ret]
    /\ UNCHANGED <<totalEntries, cFile, clock, uuids, pristine, held>>

\* Collection.getMany(filter); the caller keeps one of the entries returned
GetMany ==
  \E filter \in FilterArguments :
    /\ Call
    /\ LET r == getMany(cData, filter)
       IN /\ cData' = r.entries
          /\ last' = [op |-> "getMany", filter |-> filter, err |-> r.err, ret |-> r.ret]
          /\ IF r.err = "none" /\ r.ret.a # <<>>
               THEN \E k \in Matching(cData, filter) : Keep(k, "getMany", Beyond)
               ELSE UNCHANGED held
    /\ UNCHANGED <<totalEntries, cFile, clock, uuids, pristine>>

\* Collection.getAll(); the caller keeps one of the entries returned
GetAll ==
  /\ Call
  /\ LET r == getAll(cData)
     IN /\ cData' = r.entries
        /\ last' = [op |-> "getAll", err |-> r.err, ret |-> r.ret]
        /\ IF r.ret.a # <<>>
             THEN \E k \in 1..Len(cData) : Keep(k, "getAll", DataAt(Len(cData)))
             ELSE UNCHANGED held
  /\ UNCHANGED <<totalEntries, cFile, clock, uuids, pristine>>

\* Collection.getOrCreate(filter, data); the caller keeps the entry returned
GetOrCreate ==
  \E filter \in FilterArguments, partial \in Partials :
    /\ Call
    /\ LET r == getOrCreate(cData, cDefaults, cConfig, clock, uuids, filter, partial)
       IN /\ r.created => Len(cData) < MaxEntries
          /\ cData' = r.entries
          /\ totalEntries' = IF r.created THEN Len(cData') ELSE totalEntries
          /\ cFile' = IF r.created /\ cConfig.autoSave THEN WrittenEntries(cData') ELSE cFile
          /\ uuids' = IF r.created THEN uuids + 1 ELSE uuids
          /\ pristine' = (pristine /\ (r.created => OmitsAuto(partial)))
          /\ last' = [op |-> "getOrCreate", filter |-> filter, partial |-> partial,
                      err |-> r.err, ret |-> r.ret, created |-> r.created]
          /\ IF r.created
               THEN held' = Handle("getOrCreate", 0, r.ret, Captured(Prop(r.ret, UuidName)))
             ELSE IF r.err = "none" THEN Keep(Find(cData, filter), "getOrCreate", Entry)
             ELSE UNCHANGED held
    /\ UNCHANGED clock

\* the collection after a fetch with outcome r
Fetched(call, r) ==
  /\ cData' = r.entries
  /\ cFile' = r.file
  /\ last' = call @@ [err |-> r.err, ret |-> r.ret]
  /\ UNCHANGED <<totalEntries, clock, uuids, pristine>>

\* Collection.fetch(filter)
Fetch ==
  \E filter \in FilterArguments :
    /\ Call
    /\ LET r == fetch(cData, cFile, filter)
       IN /\ Fetched([op |-> "fetch", filter |-> filter], r)
          /\ IF r.err = "none" /\ r.ret # Null
               THEN held' = Handle("fetch", 0, r.ret, Entry)
               ELSE UNCHANGED held

\* Collection.fetchAll(); the caller keeps one of the entries returned
FetchAll ==
  /\ Call
  /\ LET r == fetchAll(cData, cFile)
     IN /\ Fetched([op |-> "fetchAll"], r)
        /\ IF r.ret.a # <<>>
             THEN \E k \in 1..Len(r.ret.a) : held' = Handle("fetchAll", 0, r.ret.a[k], Beyond)
             ELSE UNCHANGED held

\* Collection.fetchMany(filter); the caller keeps one of the entries returned
FetchMany ==
  \E filter \in FilterArguments :
    /\ Call
    /\ LET r == fetchMany(cData, cFile, filter)
       IN /\ Fetched([op |-> "fetchMany", filter |-> filter], r)
          /\ IF r.err = "none" /\ r.ret.a # <<>>
               THEN \E k \in 1..Len(r.ret.a) : held' = Handle("fetchMany", 0, r.ret.a[k], Beyond)
               ELSE UNCHANGED held

\* the caller assigns to the content of the entry it holds
EntryAssign ==
  /\ held.via # "none"
  /\ held.uses < MaxHandleUses
  /\ LET changed == Obj(ObjPut(HeldObject(cData, held).m, ContentName, NewContent))
     IN IF held.pos > 0
          THEN /\ cData' = [cData EXCEPT ![held.pos] = changed]
               /\ held' = [held EXCEPT !.changed = TRUE, !.uses = @ + 1]
          ELSE /\ cData' = cData
               /\ held' = [held EXCEPT !.obj = changed, !.changed = TRUE, !.uses = @ + 1]
  /\ last' = [op |-> "entry.assign", err |-> "none", ret |-> Undefined]
  /\ UNCHANGED <<dbVars, cDefaults, cConfig, totalEntries, cFile, clock, uuids, pristine, calls>>

\* the caller calls save() of the entry it holds
EntrySave ==
  /\ held.via # "none"
  /\ held.uses < MaxHandleUses
  /\ LET r == saveSpecific(cData, cFile, cConfig, clock, ClosureId(cData, held))
     IN /\ cData' = r.entries
        /\ cFile' = r.file
        /\ last' = [op |-> "entry.save", err |-> r.err, ret |-> Undefined]
  /\ held' = [held EXCEPT !.uses = @ + 1]
  /\ UNCHANGED <<dbVars, cDefaults, cConfig, totalEntries, clock, uuids, pristine, calls>>

\* Collection.save()
CollectionSave ==
  /\ Call
  /\ totalEntries' = Len(cData)
  /\ cFile' = WrittenEntries(cData)
  /\ last' = [op |-> "save", err |-> "none", ret |-> Undefined]
  /\ UNCHANGED <<cData, clock, uuids, pristine, held>>

\* time passes: Date.now() advances
Tick ==
  /\ clock < MaxClock
  /\ clock' = clock + 1
  /\ UNCHANGED <<dbVars, last, calls, cData, cDefaults, cConfig, totalEntries, cFile, uuids,
               pristine, held>>

NextCol == Create \/ CreateBulk \/ Random \/ Remove \/ CollectionSave \/ Tick

\* a collection created on a database that is not called, no call made
StartCol == InitCol /\ IdleDb /\ last = NoCall /\ calls = 0

\* one collection alone
SpecCol == StartCol /\ [][NextCol]_vars

NextColEdit == Create \/ Remove \/ Update \/ Reset \/ Tick

\* one collection under create, remove, update and reset
SpecColEdit == StartCol /\ [][NextColEdit]_vars

NextColInsert == Create \/ CreateBulk \/ Remove \/ Tick

\* one collection under create, createBulk and remove
SpecColInsert == StartCol /\ [][NextColInsert]_vars

NextColCreate == Create \/ GetOrCreate

\* one collection under create and getOrCreate
SpecColCreate == StartCol /\ [][NextColCreate]_vars

NextColHeld ==
  Create \/ CollectionGet \/ GetMany \/ GetAll \/ GetOrCreate \/ EntryAssign \/ EntrySave

\* one collection under create and the reads from #data, and a caller that
\* assigns to an entry it was returned and saves it
SpecColHeld == StartCol /\ [][NextColHeld]_vars

NextColRead ==
  \/ Create \/ CollectionGet \/ CollectionHas \/ GetMany \/ GetAll
  \/ Fetch \/ FetchAll \/ FetchMany

\* one collection under create and the reads
SpecColRead == StartCol /\ [][NextColRead]_vars

-----------------------------------------------------------------------------
(* The registry of collections (Database.createCollection,                 *)
(* deleteCollection, getCollection): collections holds one record per      *)
(* Collection object, colFolder the collections folder and the names of    *)
(* the collection files in it                                              *)

\* is a collection of that name registered: collections.some(c => c.name === name)
Registered(cols, name) == \E i \in 1..Len(cols) : cols[i].name = name

\* collections.findIndex(c => c.name === name), counted from 1; 0 for none
FindIndex(cols, name) ==
  IF Registered(cols, name)
    THEN CHOOSE i \in 1..Len(cols) :
           cols[i].name = name /\ \A j \in 1..(i - 1) : cols[j].name # name
    ELSE 0

\* createCollection registering whatever name passes the constructor of
\* Collection
createCollectionAnyName(cols, folder, name, defaultValues) ==
  LET made == [folder EXCEPT !.exists = TRUE]
      values == IF defaultValues = Undefined THEN Obj(<<>>) ELSE defaultValues
      newCollection == [t |-> "collection", name |-> name, defaultValues |-> values]
  IN IF TypeOf(name) # "string"
       THEN [collections |-> cols, folder |-> made, err |-> "InvalidName", ret |-> Undefined]
     ELSE IF Registered(cols, name)
       THEN [collections |-> cols, folder |-> made, err |-> "DuplicateCollection",
             ret |-> Undefined]
     ELSE IF ~isObject(values)
       THEN [collections |-> cols, folder |-> made, err |-> "InvalidDefaultValues",
             ret |-> Undefined]
     ELSE [collections |-> Append(cols, newCollection),
           folder |-> [made EXCEPT !.files = @ \cup {name}],
           err |-> "none", ret |-> newCollection]

\* Database.createCollection(name, defaultValues): [collections, folder,
\* err, ret]; #validateFolderPath makes the folder when there is none, the
\* constructor of Collection rejects defaultValues that are no mapping and
\* its #fetchData makes the file when there is none
createCollection(cols, folder, name, defaultValues) ==
  LET made == [folder EXCEPT !.exists = TRUE]
      values == IF defaultValues = Undefined THEN Obj(<<>>) ELSE defaultValues
      newCollection == [t |-> "collection", name |-> name, defaultValues |-> values]
  IN IF ~isValidKey(name)
       THEN [collections |-> cols, folder |-> made, err |-> "InvalidName", ret |-> Undefined]
     ELSE IF Registered(cols, name)
       THEN [collections |-> cols, folder |-> made, err |-> "DuplicateCollection",
             ret |-> Undefined]
     ELSE IF ~isObject(values)
       THEN [collections |-> cols, folder |-> made, err |-> "InvalidDefaultValues",
             ret |-> Undefined]
     ELSE [collections |-> Append(cols, newCollection),
           folder |-> [made EXCEPT !.files = @ \cup {name}],
           err |-> "none", ret |-> newCollection]

\* deleteCollection answering true without taking the collection out
deleteCollectionKeep(cols, folder, name) ==
  IF ~isValidKey(name)
    THEN [collections |-> cols, folder |-> folder, err |-> "InvalidName", ret |-> Undefined]
  ELSE IF FindIndex(cols, name) = 0
    THEN [collections |-> cols, folder |-> folder, err |-> "none", ret |-> Bool(FALSE)]
  ELSE [collections |-> cols, folder |-> [folder EXCEPT !.files = @ \ {name}],
        err |-> "none", ret |-> Bool(TRUE)]

\* Database.deleteCollection(name): #deleteFile unlinks the file, any
\* error of it swallowed; splice takes the collection out
deleteCollection(cols, folder, name) ==
  IF ~isValidKey(name)
    THEN [collections |-> cols, folder |-> folder, err |-> "InvalidName", ret |-> Undefined]
  ELSE LET collectionIndex == FindIndex(cols, name)
       IN IF collectionIndex = 0
            THEN [collections |-> cols, folder |-> folder, err |-> "none", ret |-> Bool(FALSE)]
            ELSE [collections |-> SubSeq(cols, 1, collectionIndex - 1)
                                    \o SubSeq(cols, collectionIndex + 1, Len(cols)),
                  folder |-> [folder EXCEPT !.files = @ \ {name}],
                  err |-> "none", ret |-> Bool(TRUE)]

\* Database.getCollection(name)
getCollection(cols, folder, name) ==
  IF ~isValidKey(name)
    THEN [collections |-> cols, folder |-> folder, err |-> "InvalidName", ret |-> Undefined]
  ELSE [collections |-> cols, folder |-> folder, err |-> "none",
        ret |-> IF Registered(cols, name) THEN cols[FindIndex(cols, name)] ELSE Null]

\* the names the registry is called with: strings with and without dots
\* and empty segments, the empty string, null
Names == {Ka, Kc, Kab, KaDotDotb, Str(<<>>), Null}

\* the default values createCollection is called with: none, a template, null
DefaultValues == {Undefined, Obj(<<<<SigilIdName, Num(0)>>>>), Null}

\* new Database(config): no collection registered; the collections folder
\* is not there, or a former run left it with the file of a collection
InitReg ==
  /\ data = Obj(<<>>)
  /\ dbConfig = [autoSave |-> TRUE, encryptionKey |-> Null]
  /\ dataFile = [exists |-> FALSE, content |-> Undefined]
  /\ collections = <<>>
  /\ colFolder \in {NoFolder, [exists |-> TRUE, files |-> {Ka}]}

\* the registry and the folder after a call with outcome r
Registry(r) ==
  /\ calls < MaxRegCalls
  /\ calls' = calls + 1
  /\ collections' = r.collections
  /\ colFolder' = r.folder
  /\ UNCHANGED <<data, dbConfig, dataFile>>

CreateCollection ==
  \E name \in Names, defaultValues \in DefaultValues :
    /\ LET r == createCollection(collections, colFolder, name, defaultValues)
       IN /\ Registry(r)
          /\ last' = [op |-> "createCollection", name |-> name,
                      defaultValues |-> defaultValues, err |-> r.err, ret |-> r.ret]
    /\ UNCHANGED colVars

DeleteCollection ==
  \E name \in Names :
    /\ LET r == deleteCollection(collections, colFolder, name)
       IN /\ Registry(r)
          /\ last' = [op |-> "deleteCollection", name |-> name, err |-> r.err, ret |-> r.ret]
    /\ UNCHANGED colVars

GetCollection ==
  \E name \in Names :
    /\ LET r == getCollection(collections, colFolder, name)
       IN /\ Registry(r)
          /\ last' = [op |-> "getCollection", name |-> name, err |-> r.err, ret |-> r.ret]
    /\ UNCHANGED colVars

NextReg == CreateCollection \/ DeleteCollection \/ GetCollection

\* a database constructed, no call made
StartReg == InitReg /\ NoCollection /\ last = NoCall /\ calls = 0

\* the registry of collections alone
SpecReg == StartReg /\ [][NextReg]_vars

-----------------------------------------------------------------------------
(* Snapshots of the tree (lib/Database.js, toJSON)                         *)

\* toJSON returning the object #data refers to
toJSONShared(d) == [err |-> "none", value |-> d, shared |-> TRUE]

\* Database.toJSON(): [err, value: what is returned, shared: whether it is
\* the object #data refers to]; JSON.stringify(undefined) is undefined and
\* JSON.parse(undefined) throws a SyntaxError
toJSON(d) ==
  IF d = Undefined THEN [err |-> "SyntaxError", value |-> Undefined, shared |-> FALSE]
  ELSE [err |-> "none", value |-> JsonForm(d), shared |-> FALSE]

\* the snapshot a caller holds, as the caller reads it now
Snapshot(d, h) == IF h.shared THEN d ELSE h.obj

\* Database.toJSON(); the caller keeps what it returns
ToJSON ==
  /\ LET r == toJSON(data)
     IN /\ Apply(Outcome(data, r.err, r.value, 0))
        /\ last' = [op |-> "toJSON", err |-> r.err, ret |-> r.value, writes |-> 0]
        /\ held' = IF r.err = "none"
                     THEN [via |-> "toJSON", obj |-> r.value, shared |-> r.shared]
                     ELSE held
  /\ UNCHANGED <<cData, cDefaults, cConfig, totalEntries, cFile, clock, uuids, pristine>>

\* the caller assigns a property of the snapshot it holds: snapshot.a = 'z'
SnapshotAssign ==
  /\ held.via = "toJSON"
  /\ LET after == Obj(ObjPut(Snapshot(data, held).m, A, NewContent))
     IN /\ held' = [held EXCEPT !.obj = after]
        /\ data' = IF held.shared THEN after ELSE data
        /\ last' = [op |-> "snapshot.assign", err |-> "none", ret |-> Undefined, writes |-> 0]
  /\ UNCHANGED <<dbConfig, dataFile, collections, colFolder, calls, cData, cDefaults,
                 cConfig, totalEntries, cFile, clock, uuids, pristine>>

NextSnap == Set \/ Delete \/ Clear \/ ToJSON \/ SnapshotAssign

\* a database that saves on request only and has an encryption key,
\* constructed and not called
StartSnap == StartDb /\ ~dbConfig.autoSave /\ dbConfig.encryptionKey # Null

\* the database and a caller that keeps a snapshot of the tree
SpecSnap == StartSnap /\ [][NextSnap]_vars

NextSet == Set \/ Delete

\* a database that saves on request only and has no encryption key
StartSet == StartDb /\ ~dbConfig.autoSave /\ dbConfig.encryptionKey = Null

\* the database under set and delete
SpecSet == StartSet /\ [][NextSet]_vars

-----------------------------------------------------------------------------
(* The methods that take a key, called with keys of every form             *)

MaxKeyCalls == 1

\* Database.#fetchData(): [file, value]; a missing file is created holding
\* {}; the SyntaxError of JSON.parse is caught and undefined is returned
databaseFetchData(file) ==
  IF ~file.exists THEN [file |-> Written(Obj(<<>>)), value |-> Obj(<<>>)]
  ELSE IF file.content \in {EmptyText, NotJson} THEN [file |-> file, value |-> Undefined]
  ELSE [file |-> file, value |-> file.content]

\* Database.fetch(key): the outcome and the file afterwards
databaseFetch(d, file, key) ==
  IF ~isValidKey(key) THEN Outcome(d, "InvalidKey", Undefined, 0) @@ [file |-> file]
  ELSE LET f == databaseFetchData(file)
       IN Outcome(d, "none", GetPath(f.value, Split(key.s)), 0) @@ [file |-> f.file]

KeyedOps ==
  {"get", "has", "set", "delete", "add", "subtract", "push", "pull", "rename", "update", "fetch"}

\* not a string, empty, a leading dot, a trailing dot, an empty segment, and
\* keys of one and of two segments
KeyForms ==
  {Null, Num(0), Str(<<>>), Str(<<".", "a">>), Str(<<"a", ".">>), KaDotDotb, Ka, Kab}

\* the outcome r of a method and the file afterwards
WithFile(r, file) == r @@ [file |-> IF r.writes > 0 THEN Written(r.data) ELSE file]

\* the method op called with key, its other arguments valid: the outcome
\* and the file afterwards
Keyed(op, d, cfg, file, key) ==
  CASE op = "get" -> WithFile(get(d, cfg, key, FALSE), file)
    [] op = "has" -> WithFile(has(d, cfg, key), file)
    [] op = "set" -> WithFile(set(d, cfg, key, Hi, FALSE, FALSE, ZeroIv), file)
    [] op = "delete" -> WithFile(delete(d, cfg, key), file)
    [] op = "add" -> WithFile(math(d, cfg, "add", key, Num(1)), file)
    [] op = "subtract" -> WithFile(math(d, cfg, "subtract", key, Num(1)), file)
    [] op = "push" -> WithFile(push(d, cfg, key, Num(1)), file)
    [] op = "pull" -> WithFile(pull(d, cfg, key, Num(1)), file)
    [] op = "rename" -> WithFile(rename(d, cfg, key, Kc), file)
    [] op = "update" ->
         WithFile(update(d, cfg, key, [t |-> "function", kind |-> "const", value |-> Num(2)]),
                  file)
    [] op = "fetch" -> databaseFetch(d, file, key)

\* the tree, the file and last after a call of op with key and outcome r
Landed(op, key, r) ==
  /\ data' = r.data
  /\ dataFile' = r.file
  /\ last' = [op |-> op, key |-> key, err |-> r.err, ret |-> r.ret, writes |-> r.writes]

\* a call of one of the methods that take a key
CallWithKey ==
  \E op \in KeyedOps, key \in KeyForms :
    /\ calls < MaxKeyCalls
    /\ calls' = calls + 1
    /\ Landed(op, key, Keyed(op, data, dbConfig, dataFile, key))
    /\ UNCHANGED <<dbConfig, collections, colFolder>>
    /\ UNCHANGED colVars

\* a database constructed without an encryption key, not called
StartKeys == StartOps

\* the database under calls with keys of every form
SpecKeys == StartKeys /\ [][CallWithKey]_vars

NextSync == CallWithKey \/ Clear

\* a database that saves by itself, constructed and not called
StartSync == StartOps /\ dbConfig.autoSave

\* the database that saves by itself, under the calls that change the tree
SpecSync == StartSync /\ [][NextSync]_vars

-----------------------------------------------------------------------------
(* save() when the write of the file fails (lib/Database.js,               *)
(* lib/Collection.js)                                                      *)

\* how FS.writeFileSync ends: it writes, or throws an error with this code
WriteFaults == {"none", "EACCES", "ENOSPC"}

\* Database.save() under fault: [file, err]; the catch rethrows EACCES only
save(tree, file, fault) ==
  IF fault = "EACCES" THEN [file |-> file, err |-> "PersistenceError"]
  ELSE IF fault # "none" \/ tree = Undefined THEN [file |-> file, err |-> "none"]
  ELSE [file |-> Written(tree), err |-> "none"]

\* Collection.save() under fault: [file, err]
collectionSave(entries, file, fault) ==
  IF fault = "EACCES" THEN [file |-> file, err |-> "PersistenceError"]
  ELSE IF fault # "none" THEN [file |-> file, err |-> "none"]
  ELSE [file |-> WrittenEntries(entries), err |-> "none"]

\* Database.save() while the file system answers with fault
FaultySave ==
  \E fault \in WriteFaults :
    /\ calls < MaxDbCalls
    /\ calls' = calls + 1
    /\ dataFile' = save(data, dataFile, fault).file
    /\ last' = [op |-> "save", of |-> "database", fault |-> fault,
                err |-> save(data, dataFile, fault).err, ret |-> Undefined]
    /\ UNCHANGED <<data, dbConfig, collections, colFolder>>
    /\ UNCHANGED colVars

\* Collection.save() while the file system answers with fault
FaultyCollectionSave ==
  \E fault \in WriteFaults :
    /\ calls < MaxDbCalls
    /\ calls' = calls + 1
    /\ totalEntries' = Len(cData)
    /\ cFile' = collectionSave(cData, cFile, fault).file
    /\ last' = [op |-> "save", of |-> "collection", fault |-> fault,
                err |-> collectionSave(cData, cFile, fault).err, ret |-> Undefined]
    /\ UNCHANGED <<dbVars, cData, cDefaults, cConfig, clock, uuids, pristine, held>>

NextFaults == FaultySave \/ FaultyCollectionSave \/ Clear

\* a database and one of its collections, constructed and not called
StartFaults == InitDb /\ InitCol /\ last = NoCall /\ calls = 0

\* save() of the database and of a collection on a file system that fails
SpecFaults == StartFaults /\ [][NextFaults]_vars

-----------------------------------------------------------------------------
(* The collection when no caller supplies an auto-increment field          *)

\* #data after create(PContent) was called twice on the empty collection
TwoCreated(defaults, cfg) ==
  create(create(<<>>, defaults, cfg, 0, 0, PContent).entries,
         defaults, cfg, 0, 1, PContent).entries

\* new Collection(name, config, defaultValues) over no file, or over the
\* file that two calls of create(PContent) left
InitAuto ==
  /\ cDefaults \in Templates
  /\ cConfig \in [autoSave : BOOLEAN, timestamps : {FALSE}]
  /\ cData \in {<<>>, TwoCreated(cDefaults, cConfig)}
  /\ cFile = WrittenEntries(cData)
  /\ totalEntries = Len(cData)
  /\ clock = 0
  /\ uuids = Len(cData)
  /\ pristine = TRUE
  /\ held = NoHandle

\* create(data) with a partial that omits the auto-increment fields
CreateOmitting ==
  /\ Create
  /\ isObject(last'.partial) /\ OmitsAuto(last'.partial)

\* createBulk(entries) with partials that omit the auto-increment fields
CreateBulkOmitting ==
  /\ CreateBulk
  /\ last'.entries.t = "array"
  /\ \A i \in 1..Len(last'.entries.a) :
       isObject(last'.entries.a[i]) /\ OmitsAuto(last'.entries.a[i])

NextColAuto ==
  CreateOmitting \/ CreateBulkOmitting \/ Remove \/ Random \/ CollectionGet \/ GetMany

StartColAuto == InitAuto /\ IdleDb /\ last = NoCall /\ calls = 0

\* one collection whose auto-increment fields are always derived
SpecColAuto == StartColAuto /\ [][NextColAuto]_vars

-----------------------------------------------------------------------------
(* The collection's counter of entries                                     *)

NextColCount ==
  \/ Create \/ CreateBulk \/ Remove \/ Update \/ Reset \/ CollectionSave
  \/ Random \/ CollectionGet \/ GetMany \/ GetAll

\* a collection that stamps no times, constructed and not called
StartColCount == StartCol /\ ~cConfig.timestamps

\* one collection under the calls that the counter of entries follows
SpecColCount == StartColCount /\ [][NextColCount]_vars

-----------------------------------------------------------------------------
(* Properties of the database                                              *)

\* the last call returned normally
Returned(op) == last.op = op /\ last.err = "none"

\* the segments of the key of the last call
LastKeys == Split(last.key.s)

\* C1: after set(k, v) returns, for a valid key k and a JSON value v stored
\* unencrypted, get(k) is v (the same structure, hence deep-equal) and
\* has(k) is true
C1_SetThenGet ==
  (Returned("set") /\ ~last.encrypt) =>
    /\ get(data, dbConfig, last.key, FALSE).err = "none"
    /\ get(data, dbConfig, last.key, FALSE).ret = last.value
    /\ has(data, dbConfig, last.key).ret = Bool(TRUE)

\* a set through a two-segment key stored a mapping under a top-level
\* value that is now a mapping
C1_Witness ==
  /\ Returned("set") /\ ~last.encrypt /\ last.writes = 1
  /\ Len(LastKeys) = 2 /\ last.value.t = "object" /\ last.ret.t = "object"

RECURSIVE MappingLookup(_, _)
\* the value at a path all of whose containers are mappings, else undefined
MappingLookup(v, keys) ==
  IF v.t # "object" THEN Undefined
  ELSE IF Len(keys) = 1 THEN ObjGet(v.m, keys[1])
  ELSE MappingLookup(ObjGet(v.m, keys[1]), Tail(keys))

\* the containers get passes through: the root and the values at the proper
\* prefixes of the key
Intermediates == {GetPath(data, SubSeq(LastKeys, 1, n)) : n \in 0..(Len(LastKeys) - 1)}

\* C2 as stated: get returns the value at the full path when every
\* intermediate is a mapping and undefined as soon as one is not
C2_Original ==
  (Returned("get") /\ ~last.decrypt) => last.ret = MappingLookup(data, LastKeys)

\* C2 as amended: get returns the value at the full path when every
\* intermediate is a mapping, undefined when an intermediate is missing,
\* null, a number or a boolean, and reads the next segment as a property of
\* an array or string intermediate (element or character at an index, length)
C2_GetTraversal ==
  (Returned("get") /\ ~last.decrypt) =>
    /\ (\A v \in Intermediates : v.t = "object") => last.ret = MappingLookup(data, LastKeys)
    /\ (\E v \in Intermediates : v.t \in {"undefined", "null", "number", "boolean"})
         => last.ret = Undefined
    /\ \A v \in Intermediates :
         (Len(LastKeys) = 2 /\ v = GetPath(data, <<LastKeys[1]>>) /\ v.t \in {"array", "string"}) =>
           LET elems == IF v.t = "array" THEN v.a ELSE [i \in 1..Len(v.s) |-> Str(<<v.s[i]>>)]
           IN /\ LastKeys[2] = LengthName => last.ret = Num(Len(elems))
              /\ (IsIndex(LastKeys[2]) /\ IndexOf(LastKeys[2]) < Len(elems))
                   => last.ret = elems[IndexOf(LastKeys[2]) + 1]

\* get went through an array intermediate and returned its element
C2_Witness ==
  /\ Returned("get") /\ ~last.decrypt /\ last.key = Ka0
  /\ GetPath(data, <<A>>).t = "array" /\ last.ret = Num(1)

\* C3 as stated: delete(key) leaves has(key) false and returns true if and
\* only if has(key) was true immediately before the call
C3_DeleteReturnsExisted ==
  Returned("delete") =>
    /\ has(data, dbConfig, last.key).ret = Bool(FALSE)
    /\ last.ret = Bool(last.had)

\* C4 as stated: with an encryption key configured, after set(k, s, true)
\* returns for a string s the value stored at k is an envelope of s and
\* get(k) without decrypt does not return s
C4_EncryptedAtRest ==
  (Returned("set") /\ last.encrypt /\ last.value.t = "string") =>
    /\ get(data, dbConfig, last.key, FALSE).ret # last.value
    /\ \E iv \in Ivs : get(data, dbConfig, last.key, FALSE).ret
                         = encrypt(CipherKey(dbConfig), iv, last.value)

\* C5 as stated: with an encryption key configured, set(k, s, true)
\* followed by get(k, true) returns s
C5_EncryptRoundTrip ==
  (Returned("set") /\ last.encrypt /\ last.value.t = "string") =>
    /\ get(data, dbConfig, last.key, TRUE).err = "none"
    /\ get(data, dbConfig, last.key, TRUE).ret = last.value

\* two calls of set in a row, unencrypted, with the same key and value,
\* with autoSave on, the first returning normally
SetTwice ==
  /\ dbConfig.autoSave
  /\ Returned("set") /\ ~last.encrypt
  /\ calls' = calls + 1 /\ last'.op = "set" /\ ~last'.encrypt
  /\ last'.key = last.key /\ last'.value = last.value

\* the step changes neither the tree nor the file and writes nothing
NoOpStep == last'.writes = 0 /\ data' = data /\ dataFile' = dataFile

\* C6 as stated: the second of two calls set(k, v) in a row with the same v
\* is a no-op: no persistence write, tree and file unchanged
C6_Original == [][SetTwice => NoOpStep]_vars

\* C6 as amended: the second call is a no-op when v is a primitive or the
\* same reference as the stored value (the pair then makes at most one
\* write); a distinct array or mapping, though deep-equal, is written again
C6_SecondSetNoOp ==
  [][SetTwice =>
       /\ (last'.value.t \notin {"array", "object"} \/ last'.sameRef)
            => (NoOpStep /\ last.writes + last'.writes <= 1)
       /\ (last'.value.t \in {"array", "object"} /\ ~last'.sameRef)
            => (last'.writes = 1 /\ dataFile' = Written(data'))]_vars

\* a set that found its value already stored and wrote nothing
C6_Witness ==
  /\ dbConfig.autoSave /\ calls = 2
  /\ Returned("set") /\ ~last.encrypt /\ last.had /\ last.writes = 0
  /\ dataFile.exists /\ dataFile.content = data

-----------------------------------------------------------------------------
(* Properties of rename, add, subtract, push, pull and update              *)

\* the step is a call of op
Step(op) == calls' = calls + 1 /\ last'.op = op

\* the segments of the key of the call the step makes
StepKeys == Split(last'.key.s)

\* the tree after set(newName, get(key)) followed by delete(key)
SetThenDelete(d, cfg, key, newName) ==
  delete(set(d, cfg, newName, GetPath(d, Split(key.s)), FALSE, newName = key, ZeroIv).data,
         cfg, key).data

\* C11 as stated: for every key that resolves and every valid newName,
\* rename(key, newName) leaves the root tree as set(newName, get(key))
\* followed by delete(key) leaves it
C11_Original ==
  [][(Step("rename") /\ last'.err = "none")
       => data' = SetThenDelete(data, dbConfig, last'.key, last'.newName)]_vars

\* C11 as amended: rename(key, newName) leaves the root tree as
\* set(newName, get(key)) followed by delete(key) leaves it when key has a
\* single segment or newName is dotted
C11_RenameAsSetDelete ==
  [][(Step("rename") /\ last'.err = "none"
      /\ (Len(StepKeys) = 1 \/ Dotted(last'.newName)))
       => data' = SetThenDelete(data, dbConfig, last'.key, last'.newName)]_vars

\* a top-level key was renamed to another undotted name, which now holds
\* the value
C11_Witness ==
  /\ Returned("rename") /\ Len(LastKeys) = 1 /\ ~Dotted(last.newName)
  /\ last.newName # last.key
  /\ GetPath(data, <<last.newName.s>>) = last.prev
  /\ GetPath(data, LastKeys) = Undefined

\* C12 as stated: after a successful rename(key, newName) the value is
\* stored under newName in the container of key's last segment when newName
\* has no dot and at the path newName when it is dotted, key no longer
\* resolves, and every sibling of key that newName does not lead to keeps
\* its value
C12_RenameMoves ==
  [][(Step("rename") /\ last'.err = "none") =>
       LET parent == SubSeq(StepKeys, 1, Len(StepKeys) - 1)
           names == Split(last'.newName.s)
           dest == IF Dotted(last'.newName) THEN names ELSE parent \o names
           leads == IF Len(dest) > Len(parent) /\ SubSeq(dest, 1, Len(parent)) = parent
                      THEN {dest[Len(parent) + 1]} ELSE {}
           siblings == (ObjNames(GetPath(data, parent).m) \ {StepKeys[Len(StepKeys)]}) \ leads
       IN /\ GetPath(data', dest) = GetPath(data, StepKeys)
          /\ GetPath(data', StepKeys) = Undefined
          /\ \A name \in siblings :
               GetPath(data', parent \o <<name>>) = GetPath(data, parent \o <<name>>)]_vars

\* a number that is neither NaN nor an infinity
IsFinite(v) == IsInt(v) \/ IsMaxValue(v)

\* the step is a call of add or subtract with a valid key
MathStep == (Step("add") \/ Step("subtract")) /\ isValidKey(last'.key)

\* C13 as stated: add and subtract of a finite number take a missing value
\* as 0, and fail with InvalidValue, the tree unchanged, when a value is
\* present at key and is not a number
C13_MissingAsZero ==
  [][(MathStep /\ IsFinite(last'.value)) =>
       /\ last'.prev = Undefined =>
            /\ last'.err = "none"
            /\ GetPath(data', StepKeys) = IF last'.op = "add" THEN last'.value
                                          ELSE Negate(last'.value)
       /\ (last'.prev # Undefined /\ TypeOf(last'.prev) # "number") =>
            (last'.err = "InvalidValue" /\ data' = data)]_vars

\* C14 as stated: add and subtract fail with InvalidValue, the tree
\* unchanged, when value is NaN, an infinity of either sign, undefined or
\* not a number
C14_RejectsNonFinite ==
  [][(MathStep /\ ~IsFinite(last'.value))
       => (last'.err = "InvalidValue" /\ data' = data)]_vars

\* add(k, n) returned for a key holding a number and a finite n, and the
\* step is subtract(k, n)
AddThenSubtract ==
  /\ Returned("add") /\ TypeOf(last.prev) = "number" /\ IsFinite(last.value)
  /\ Step("subtract") /\ last'.key = last.key /\ last'.value = last.value

\* C15 as stated: for a key k holding a number x and a finite number n,
\* add(k, n) followed by subtract(k, n) leaves get(k) equal to x
C15_Original ==
  [][AddThenSubtract => (last'.err = "none" /\ GetPath(data', StepKeys) = last.prev)]_vars

\* C15 as amended: for a key k holding an integer x and an integer n, both
\* and their sum of a magnitude double precision holds exactly (at most
\* 2^53), add(k, n) followed by subtract(k, n) leaves get(k) equal to x
C15_AddSubtractRestores ==
  [][(AddThenSubtract /\ IsInt(last.prev) /\ IsInt(last.value))
       => (last'.err = "none" /\ GetPath(data', StepKeys) = last.prev)]_vars

\* subtract(a.b, 1) brought a.b back from 2 to 1 after add(a.b, 1)
C15_Witness ==
  /\ Returned("subtract") /\ calls = 2 /\ last.key = Kab
  /\ last.value = Num(1) /\ last.prev = Num(2)
  /\ GetPath(data, LastKeys) = Num(1)

\* C16 as stated: push and pull with a valid key fail with MissingValue
\* when value is undefined, take an absent key as an empty array, and fail
\* with NotAnArray when a value is present at key and is not an array; a
\* failure leaves the tree unchanged
C16_ArrayErrors ==
  [][((Step("push") \/ Step("pull")) /\ isValidKey(last'.key)) =>
       /\ last'.value = Undefined => (last'.err = "MissingValue" /\ data' = data)
       /\ (last'.value # Undefined /\ last'.prev = Undefined) =>
            /\ last'.err = "none"
            /\ GetPath(data', StepKeys) = IF last'.op = "push" THEN Arr(<<last'.value>>)
                                          ELSE Arr(<<>>)
       /\ (last'.value # Undefined /\ last'.prev # Undefined /\ last'.prev.t # "array") =>
            (last'.err = "NotAnArray" /\ data' = data)]_vars

RECURSIVE DeepEqual(_, _)
\* deep equality of JSON values: mappings with the same names and deep-equal
\* values under each name, in whatever order; arrays equal element by element
DeepEqual(a, b) ==
  IF a.t # b.t THEN FALSE
  ELSE IF a.t = "object"
    THEN /\ ObjNames(a.m) = ObjNames(b.m)
         /\ \A name \in ObjNames(a.m) : DeepEqual(ObjGet(a.m, name), ObjGet(b.m, name))
  ELSE IF a.t = "array"
    THEN /\ Len(a.a) = Len(b.a)
         /\ \A i \in 1..Len(a.a) : DeepEqual(a.a[i], b.a[i])
  ELSE a = b

\* C17 as stated: pull(key, value) leaves at key the elements of the
\* previous array that are not deep-equal to value, in their order; and
\* pull(k, v) after push(k, v) on an unset key leaves []
C17_PullRemovesEqual ==
  [][(Step("pull") /\ last'.err = "none") =>
       /\ last'.prev.t = "array" =>
            GetPath(data', StepKeys)
              = Arr(SelectSeq(last'.prev.a, LAMBDA v : ~DeepEqual(v, last'.value)))
       /\ (Returned("push") /\ ~last.had /\ last'.key = last.key /\ last'.value = last.value)
            => GetPath(data', StepKeys) = Arr(<<>>)]_vars

\* C18: after update(key, callback) returns for an existing key, the value
\* at key is the mapping as the callback changed it in place when a mapping
\* was stored there, and what the callback returned for any other stored
\* value; the call returns the value of the key's top-level segment
C18_UpdateStores ==
  Returned("update") =>
    LET c == Invoke(last.callback, last.prev)
    IN /\ last.prev.t = "object" => GetPath(data, LastKeys) = c.arg
       /\ last.prev.t # "object" => GetPath(data, LastKeys) = c.ret
       /\ last.ret = GetPath(data, <<LastKeys[1]>>)

\* update('a', d => d.b = 2) changed the mapping { b: 1 } at a in place
C18_Witness ==
  /\ Returned("update") /\ last.key = Ka /\ last.callback.kind = "assign"
  /\ last.prev = Obj(<<<<B, Num(1)>>>>)
  /\ data = Obj(<<<<A, Obj(<<<<B, Num(2)>>>>)>>>>)

-----------------------------------------------------------------------------
(* Properties of the collection                                            *)

\* the entry stored last
Newest == cData[Len(cData)]

\* the template positions that declare an auto-increment field
AutoFields == {i \in 1..Len(cDefaults) : StartsWithSigil(cDefaults[i][1])}

\* C7 as stated: every field supplied in the partial keeps its supplied
\* value in the entry create stores
C7_SuppliedFieldsKept ==
  Returned("create") =>
    \A i \in 1..Len(last.partial.m) :
      Prop(Newest, last.partial.m[i][1]) = last.partial.m[i][2]

IsNumber(v) == v.t = "number" /\ v # NaN

\* the values of field f over the entries q that have it
FieldValues(q, f) == {Prop(q[j], f) : j \in {h \in 1..Len(q) : ObjHas(q[h].m, f)}}

Max(S) == CHOOSE x \in S : \A y \in S : y <= x

\* C8 as stated: create gives a new entry that omits the auto-increment
\* field f one more than the maximum of f over the current entries, in
\* whatever order they are stored, and the template's default when no entry
\* has f or no value found is numeric
C8_MaxPlusOne ==
  [][(calls' = calls + 1 /\ last'.op = "create" /\ last'.err = "none"
      /\ OmitsAuto(last'.partial)) =>
       \A i \in AutoFields :
         LET f == Tail(cDefaults[i][1])
             found == FieldValues(cData, f)
             assigned == Prop(cData'[Len(cData')], f)
         IN /\ (\A v \in found : ~IsNumber(v)) => assigned = cDefaults[i][2]
            /\ (found # {} /\ \A v \in found : IsNumber(v))
                 => assigned = Num(Max({v.n : v \in found}) + 1)]_vars

\* C9: in a collection that was empty, after create and createBulk calls
\* that omit the auto-increment field of a template { $id: s } with s
\* numeric, the entries hold s, s+1, ... in creation order, and the entries
\* the call returned hold the same values in batch order
C9_SequentialIds ==
  pristine =>
    \A i \in AutoFields :
      IsNumber(cDefaults[i][2]) =>
        LET f == Tail(cDefaults[i][1])
            s == cDefaults[i][2].n
            n == Len(cData)
        IN /\ \A j \in 1..n : Prop(cData[j], f) = Num(s + j - 1)
           /\ Returned("create") => Prop(last.ret, f) = Num(s + n - 1)
           /\ Returned("createBulk") =>
                \A j \in 1..Len(last.ret.a) :
                  Prop(last.ret.a[j], f) = Num(s + n - Len(last.ret.a) + j - 1)

\* a createBulk of two entries after a create, all omitting the field
C9_Witness ==
  /\ pristine /\ AutoFields # {}
  /\ Returned("createBulk") /\ Len(last.ret.a) = 2 /\ Len(cData) = 3

\* the names of the template fields #checkEntry fills into a partial
FilledNames(partial) ==
  {IF StartsWithSigil(cDefaults[i][1]) THEN Tail(cDefaults[i][1]) ELSE cDefaults[i][1] :
     i \in {h \in 1..Len(cDefaults) : ~ObjHas(partial.m, cDefaults[h][1])}}

\* C10 as stated: create returns an entry made of exactly the partial's
\* fields, the materialized template defaults and, with timestamps on,
\* createdAt and updatedAt, with no other field
C10_ReturnedFields ==
  Returned("create") =>
    ObjNames(last.ret.m) =
      ObjNames(last.partial.m) \cup FilledNames(last.partial)
        \cup (IF cConfig.timestamps THEN {CreatedAt, UpdatedAt} ELSE {})

\* the entry without the save function get attaches
WithoutSave(e) == Obj(ObjDelete(e.m, SaveName))

\* C19 as stated: get with a callable filter returns null when no entry
\* matches, the entry itself when exactly one matches, and the sequence of
\* all matching entries in order when more than one matches
C19_GetByMatchCount ==
  [][(Step("get") /\ checkFunction(last'.filter)) =>
       LET found == SelectSeq(cData, LAMBDA e : Matches(last'.filter, e))
       IN /\ last'.err = "none"
          /\ Len(found) = 0 => last'.ret = Null
          /\ Len(found) = 1 =>
               (last'.ret.t = "object" /\ WithoutSave(last'.ret) = WithoutSave(found[1]))
          /\ Len(found) > 1 =>
               /\ last'.ret.t = "array"
               /\ Len(last'.ret.a) = Len(found)
               /\ \A i \in 1..Len(found) :
                    WithoutSave(last'.ret.a[i]) = WithoutSave(found[i])]_vars

\* C20 as stated: get() with the filter omitted does not fail and returns
\* all the entries of the collection, while has() with the filter omitted
\* fails with InvalidFilter
C20_GetWithoutFilter ==
  [][/\ (Step("get") /\ last'.filter = Undefined) =>
          /\ last'.err = "none"
          /\ last'.ret.t = "array"
          /\ Len(last'.ret.a) = Len(cData)
          /\ \A i \in 1..Len(cData) : WithoutSave(last'.ret.a[i]) = WithoutSave(cData[i])
     /\ (Step("has") /\ last'.filter = Undefined) => last'.err = "InvalidFilter"]_vars

-----------------------------------------------------------------------------
(* Properties of getOrCreate, remove, reset, update and random             *)

\* the step is getOrCreate(filter, partial) with a filter function, and with
\* a mapping as partial when no entry matches
GetOrCreateStep ==
  /\ Step("getOrCreate")
  /\ checkFunction(last'.filter)
  /\ (Matching(cData, last'.filter) = {} => isObject(last'.partial))

\* C21 as stated: getOrCreate creates nothing and returns get(filter) when
\* an entry matches; when none matches it makes one create(partial) and
\* returns get(filter) of the collection with the entry created
C21_Original ==
  [][GetOrCreateStep =>
       LET c == create(cData, cDefaults, cConfig, clock, uuids, last'.partial)
       IN /\ last'.err = "none"
          /\ Matching(cData, last'.filter) # {} =>
               /\ uuids' = uuids /\ Len(cData') = Len(cData)
               /\ last'.ret = collectionGet(cData, last'.filter).ret
          /\ Matching(cData, last'.filter) = {} =>
               /\ uuids' = uuids + 1 /\ cData' = c.entries
               /\ last'.ret = collectionGet(cData', last'.filter).ret]_vars

\* C21 amended: when none matches, getOrCreate makes one create(partial)
\* and returns the entry create returned, with a save function; that is
\* get(filter) of the collection afterwards when the created entry matches
\* the filter, while get(filter) is null when it does not
C21_GetOrCreate ==
  [][GetOrCreateStep =>
       LET c == create(cData, cDefaults, cConfig, clock, uuids, last'.partial)
       IN /\ last'.err = "none"
          /\ Matching(cData, last'.filter) # {} =>
               /\ uuids' = uuids /\ Len(cData') = Len(cData)
               /\ last'.ret = collectionGet(cData, last'.filter).ret
          /\ Matching(cData, last'.filter) = {} =>
               /\ uuids' = uuids + 1 /\ cData' = c.entries
               /\ last'.ret = WithSave(c.ret)
               /\ IF Matches(last'.filter, c.ret)
                    THEN last'.ret = collectionGet(cData', last'.filter).ret
                    ELSE collectionGet(cData', last'.filter).ret = Null]_vars

\* getOrCreate found no match in a collection that holds entries, and
\* created an entry that matches its filter
C21_Witness ==
  /\ last.op = "getOrCreate" /\ last.err = "none" /\ last.created
  /\ Len(cData) > 1
  /\ last.filter.kind = "eq" /\ Matches(last.filter, last.ret)

\* C22: remove(filter) takes out of #data exactly the entries the filter
\* matches and returns them, the others keep their order; remove() empties
\* the collection; afterwards no entry matches, so has(filter) is false
C22_RemoveMatching ==
  [][(Step("remove") /\ checkFunction(Default(last'.filter))) =>
       LET f == Default(last'.filter)
       IN /\ last'.err = "none"
          /\ cData' = SelectSeq(cData, LAMBDA e : ~Matches(f, e))
          /\ last'.ret = Arr(SelectSeq(cData, LAMBDA e : Matches(f, e)))
          /\ last'.filter = Undefined => cData' = <<>>
          /\ collectionHas(cData', f).ret = Bool(FALSE)]_vars

\* remove took out one entry and left two
C22_Witness ==
  /\ last.op = "remove" /\ last.err = "none"
  /\ Len(last.ret.a) = 1 /\ Len(cData) = 2

\* the template properties with a literal default that reset restores: the
\* name does not start with $ and is neither createdAt nor updatedAt
Literals ==
  SelectSeq(cDefaults, LAMBDA p : ~StartsWithSigil(p[1]) /\ p[1] \notin {CreatedAt, UpdatedAt})

\* the step is reset(filter) with a filter function or none
ResetStep == Step("reset") /\ checkFunction(Default(last'.filter))

\* the entries but the matching ones, and every property of the matching
\* ones that is not a literal of the template nor updatedAt, are as before
ResetFrame ==
  /\ Len(cData') = Len(cData)
  /\ \A i \in 1..Len(cData) :
       IF Matches(Default(last'.filter), cData[i])
         THEN \A name \in ObjNames(cData[i].m) \cup ObjNames(cData'[i].m) :
                (~ObjHas(Literals, name) /\ name # UpdatedAt) =>
                  Prop(cData'[i], name) = Prop(cData[i], name)
         ELSE cData'[i] = cData[i]

\* C23 as stated: after reset(filter) every matching entry holds the
\* default at each property the template declares with a literal default,
\* createdAt and updatedAt apart; auto-increment properties of matching
\* entries and all properties of the other entries are unchanged
C23_Original ==
  [][ResetStep =>
       /\ last'.err = "none"
       /\ ResetFrame
       /\ \A i \in 1..Len(cData) :
            Matches(Default(last'.filter), cData[i]) =>
              \A k \in 1..Len(Literals) :
                Prop(cData'[i], Literals[k][1]) = Literals[k][2]]_vars

\* C23 amended: after reset(filter) every matching entry holds the default
\* at each property it has and the template declares with a literal
\* default, createdAt and updatedAt apart, and gains no property it did
\* not have; the frame is as stated
C23_ResetDefaults ==
  [][ResetStep =>
       /\ last'.err = "none"
       /\ ResetFrame
       /\ \A i \in 1..Len(cData) :
            Matches(Default(last'.filter), cData[i]) =>
              \A k \in 1..Len(Literals) :
                IF ObjHas(cData[i].m, Literals[k][1])
                  THEN Prop(cData'[i], Literals[k][1]) = Literals[k][2]
                  ELSE ~ObjHas(cData'[i].m, Literals[k][1])]_vars

\* reset put the default back into an entry whose content had been set
C23_Witness ==
  /\ last.op = "reset" /\ last.err = "none" /\ Literals # <<>>
  /\ \E k \in 1..Len(last.invoked) :
       /\ Prop(last.invoked[k].arg, ContentName) = Hi
       /\ Prop(cData[last.invoked[k].pos], ContentName) = Literals[1][2]

\* the step is update(updateCallback, filter) with functions
UpdateStep ==
  /\ Step("update")
  /\ checkFunction(last'.callback) /\ checkFunction(Default(last'.filter))

\* C24: update calls updateCallback once on each entry that matched the
\* filter before any entry was changed, in order, and on no other; with
\* timestamps on, the entry the callback receives already holds the new
\* updatedAt; the file is written if and only if autoSave is on and an
\* entry matched
C24_UpdateInvokes ==
  [][UpdateStep =>
       LET f == Default(last'.filter)
           matched == {i \in 1..Len(cData) : Matches(f, cData[i])}
           invoked == last'.invoked
       IN /\ last'.err = "none"
          /\ {invoked[k].pos : k \in 1..Len(invoked)} = matched
          /\ \A j, k \in 1..Len(invoked) : j < k => invoked[j].pos < invoked[k].pos
          /\ \A k \in 1..Len(invoked) :
               /\ cConfig.timestamps => Prop(invoked[k].arg, UpdatedAt) = Num(clock)
               /\ cData'[invoked[k].pos] = Updated(last'.callback, invoked[k].arg)
          /\ \A i \in (1..Len(cData)) \ matched : cData'[i] = cData[i]
          /\ last'.saves <=> (cConfig.autoSave /\ matched # {})
          /\ cFile' = IF cConfig.autoSave /\ matched # {} THEN WrittenEntries(cData') ELSE cFile]_vars

\* with timestamps on and the clock advanced since the entries were
\* created, update changed an entry so that the filter matches it no more
C24_Witness ==
  /\ last.op = "update" /\ last.err = "none" /\ cConfig.timestamps /\ clock > 0
  /\ last.filter # Undefined /\ last.filter.kind = "eq"
  /\ \E k \in 1..Len(last.invoked) :
       /\ Prop(last.invoked[k].arg, CreatedAt) = Num(0)
       /\ Prop(last.invoked[k].arg, UpdatedAt) = Num(clock)
       /\ ~Matches(last.filter, cData[last.invoked[k].pos])

\* the amount random works with: 1 when none is passed
AmountOf(argument) == IF argument = Undefined THEN Num(1) ELSE argument

\* a number greater than 0
IsPositive(v) == IsInt(v) /\ v.n > 0

\* C25 as stated: random(amount) fails with InvalidAmount when amount is
\* not a positive number, with AmountExceedsSize when a positive amount
\* exceeds the number of entries, and what it returns without failing
\* holds no fewer than amount entries
C25_RandomErrors ==
  [][Step("random") =>
       LET amount == AmountOf(last'.amount)
           returned == IF last'.ret.t = "array" THEN Len(last'.ret.a) ELSE 1
       IN /\ ~IsPositive(amount) => last'.err = "InvalidAmount"
          /\ (IsPositive(amount) /\ amount.n > Len(cData)) => last'.err = "AmountExceedsSize"
          /\ (last'.amount = Undefined /\ cData = <<>>) => last'.err = "AmountExceedsSize"
          /\ last'.err = "none" => (IsPositive(amount) /\ returned >= amount.n)]_vars

-----------------------------------------------------------------------------
(* Properties of the reads and of the entries they return                  *)

FetchOps == {"fetch", "fetchMany", "fetchAll"}
ReadOps == {"get", "getMany", "getAll", "has"} \cup FetchOps

\* the step is a call of one of the reads
ReadStep == calls' = calls + 1 /\ last'.op \in ReadOps

\* the entries a call returned
ReturnedEntries(call) ==
  IF call.err # "none" THEN {}
  ELSE IF call.ret.t = "array" THEN {call.ret.a[k] : k \in 1..Len(call.ret.a)}
  ELSE IF call.ret.t = "object" THEN {call.ret}
  ELSE {}

\* C26 as stated: get, getMany, getAll, has, fetch, fetchMany and fetchAll
\* leave every entry of #data with the properties and values it had
C26_Original == [][ReadStep => cData' = cData]_vars

\* C26 amended: a read leaves every entry of #data with the properties and
\* values it had, but for the property save: get, getMany and getAll put a
\* save function on the entries of #data they return, has on the entry
\* get(filter) returns, and on no other; fetch, fetchMany and fetchAll
\* change no entry of #data at all
C26_ReadsAddSaveOnly ==
  [][ReadStep =>
       /\ Len(cData') = Len(cData)
       /\ \A i \in 1..Len(cData) :
            /\ WithoutSave(cData'[i]) = WithoutSave(cData[i])
            /\ cData'[i] # cData[i] =>
                 /\ cData'[i] = WithSave(cData[i])
                 /\ last'.op = "has" => i = Find(cData, last'.filter)
                 /\ last'.op # "has" => cData'[i] \in ReturnedEntries(last')
       /\ last'.op \in FetchOps => cData' = cData]_vars

\* getMany returned two entries of #data, which now hold a save function
C26_Witness ==
  /\ last.op = "getMany" /\ last.err = "none" /\ Len(last.ret.a) = 2
  /\ \A i \in 1..2 : ObjHas(cData[i].m, SaveName)

\* the step is save() of the entry held
SaveStep == last'.op = "entry.save" /\ held'.uses = held.uses + 1

\* a filter that matches the entries whose __id is id
ById(id) == [t |-> "function", kind |-> "eq", field |-> UuidName, value |-> id]

\* C27 as stated: when the caller has assigned to the content of an entry
\* that get, getMany, getAll or getOrCreate returned, save() of that entry
\* does not fail, the file then holds the entry with the new content, and
\* get returns the entry with the new content
C27_SavePersists ==
  [][(SaveStep /\ held.changed /\ held.via \in {"get", "getMany", "getAll", "getOrCreate"}) =>
       LET id == Prop(HeldObject(cData, held), UuidName)
       IN /\ last'.err = "none"
          /\ \E k \in 1..Len(cFile'.content.a) :
               /\ Prop(cFile'.content.a[k], UuidName) = id
               /\ Prop(cFile'.content.a[k], ContentName) = NewContent
          /\ Prop(collectionGet(cData', ById(id)).ret, ContentName) = NewContent]_vars

\* the sequence with the save function taken off its entries
AllWithoutSave(q) == [k \in 1..Len(q) |-> WithoutSave(q[k])]

\* C28: fetch, fetchAll and fetchMany answer from the entries in the file:
\* the first that matches or null, all, and all that match; they leave
\* #data and totalEntries as they were, so that get answers as before
C28_FetchReadsFile ==
  [][(calls' = calls + 1 /\ last'.op \in FetchOps
        /\ (last'.op # "fetchAll" => checkFunction(last'.filter))) =>
       LET stored == cFile.content.a
           found == IF last'.op = "fetchAll" THEN stored
                    ELSE SelectSeq(stored, LAMBDA e : Matches(last'.filter, e))
       IN /\ last'.err = "none"
          /\ cData' = cData /\ totalEntries' = totalEntries /\ cFile' = cFile
          /\ last'.op = "fetch" =>
               IF found = <<>> THEN last'.ret = Null
               ELSE WithoutSave(last'.ret) = found[1]
          /\ last'.op # "fetch" => AllWithoutSave(last'.ret.a) = found
          /\ \A filter \in Filters :
               collectionGet(cData', filter) = collectionGet(cData, filter)]_vars

\* with autoSave off and an entry created since the file was written,
\* fetchAll returned the entries of the file, the new entry not among them
C28_Witness ==
  /\ last.op = "fetchAll" /\ ~cConfig.autoSave
  /\ Len(last.ret.a) = 2 /\ Len(cData) = 3
  /\ \A k \in 1..2 : Prop(last.ret.a[k], UuidName) # Prop(cData[3], UuidName)

-----------------------------------------------------------------------------
(* Properties of the registry of collections                               *)

\* the names of the registered collections are pairwise distinct
DistinctNames(cols) ==
  \A i, j \in 1..Len(cols) : cols[i].name = cols[j].name => i = j

\* C29: createCollection of a registered name fails with
\* DuplicateCollection and registers nothing; the registered names stay
\* pairwise distinct; deleteCollection(name) returns true if and only if
\* name was registered, and afterwards getCollection(name) is null and
\* createCollection(name) registers the name
C29_RegistryDistinct ==
  [][/\ DistinctNames(collections')
     /\ (Step("createCollection") /\ Registered(collections, last'.name)) =>
          (last'.err = "DuplicateCollection" /\ collections' = collections)
     /\ (Step("deleteCollection") /\ isValidKey(last'.name)) =>
          /\ last'.err = "none"
          /\ last'.ret = Bool(Registered(collections, last'.name))
          /\ getCollection(collections', colFolder', last'.name).ret = Null
          /\ Registered(createCollection(collections', colFolder', last'.name, Undefined).collections,
                        last'.name)]_vars

\* of two collections registered, deleteCollection took one out
C29_Witness ==
  /\ last.op = "deleteCollection" /\ last.ret = Bool(TRUE)
  /\ Len(collections) = 1 /\ ~Registered(collections, last.name)

\* the name is a string and has a dot in it
HasDot(name) == TypeOf(name) = "string" /\ \E i \in 1..Len(name.s) : name.s[i] = "."

\* C30 as stated: createCollection fails with InvalidName and registers
\* nothing for every name that is not a non-empty string or has a dot in it
C30_Original ==
  [][(Step("createCollection")
        /\ (TypeOf(last'.name) # "string" \/ last'.name = Str(<<>>) \/ HasDot(last'.name))) =>
       (last'.err = "InvalidName" /\ collections' = collections)]_vars

\* C30 amended: createCollection fails with InvalidName and registers
\* nothing exactly for the names that are no string or that, cut at the
\* dots, have an empty part; a name with dots between parts that are not
\* empty is registered like any other
C30_InvalidNames ==
  [][Step("createCollection") =>
       LET name == last'.name
           invalid == \/ TypeOf(name) # "string"
                      \/ name = Str(<<>>)
                      \/ name.s[1] = "." \/ name.s[Len(name.s)] = "."
                      \/ \E i \in 1..(Len(name.s) - 1) : name.s[i] = "." /\ name.s[i + 1] = "."
       IN /\ invalid <=> last'.err = "InvalidName"
          /\ invalid => collections' = collections
          /\ (~invalid /\ ~Registered(collections, name) /\ last'.defaultValues # Null) =>
               (last'.err = "none" /\ Registered(collections', name))]_vars

\* a collection named a.b is registered
C30_Witness ==
  /\ last.op = "createCollection" /\ last.name = Kab /\ last.err = "none"
  /\ Registered(collections, Kab)

-----------------------------------------------------------------------------
(* Properties of snapshots, keys, faults and frames                        *)

\* a public call other than toJSON is made while a snapshot is held
AfterSnapshot == held.via = "toJSON" /\ calls' = calls + 1 /\ last'.op # "toJSON"

\* C31 as stated: toJSON() returns a value equal to the current root tree
C31_Original ==
  [][(calls' = calls + 1 /\ last'.op = "toJSON" /\ last'.err = "none")
       => last'.ret = data]_vars

\* C31: toJSON() returns the JSON round trip of the current root tree (which
\* is the tree itself unless the tree holds a value JSON has no form for: the
\* hole that delete leaves in an array is null in the snapshot), encrypted
\* values left as stored; it leaves the tree alone; a later set, delete or
\* clear does not change a snapshot already returned, and assigning to a
\* returned snapshot does not change the tree or the file
C31_ToJSONSnapshot ==
  [][/\ (calls' = calls + 1 /\ last'.op = "toJSON" /\ last'.err = "none")
          => /\ last'.ret = JsonForm(data)
             /\ Snapshot(data', held') = JsonForm(data)
             /\ data' = data
     /\ AfterSnapshot => Snapshot(data', held') = Snapshot(data, held)
     /\ (calls' = calls /\ last'.op = "snapshot.assign")
          => data' = data /\ dataFile' = dataFile]_vars

\* a set stored an encrypted value after a snapshot was returned: the
\* snapshot is no longer the JSON form of the tree
C31_Witness ==
  /\ held.via = "toJSON" /\ Returned("set") /\ last.encrypt
  /\ Snapshot(data, held) # JsonForm(data)

\* the key is not a string, is empty, starts or ends with a dot, or has two
\* dots in a row
Malformed(key) ==
  \/ key.t # "string"
  \/ key.s = <<>>
  \/ key.s[1] = "." \/ key.s[Len(key.s)] = "."
  \/ \E i \in 1..(Len(key.s) - 1) : key.s[i] = "." /\ key.s[i + 1] = "."

\* C32: get, has, set, delete, add, subtract, push, pull, rename, update
\* and fetch, called with a malformed key and otherwise valid arguments, fail
\* with InvalidKey and leave the tree and the file as they were
C32_InvalidKey ==
  [][(calls' = calls + 1 /\ last'.op \in KeyedOps /\ Malformed(last'.key))
       => /\ last'.err = "InvalidKey"
          /\ data' = data
          /\ dataFile' = dataFile]_vars

\* rename was called with a key that ends with a dot, on a tree that holds
\* a, and failed
C32_Witness ==
  /\ last.op = "rename" /\ last.key = Str(<<"a", ".">>) /\ last.err = "InvalidKey"
  /\ Exists(data, Ka)

\* C33: whenever the write of the file fails, for whatever reason,
\* Database.save() and Collection.save() raise PersistenceError
C33_FailedWriteRaises ==
  [][(calls' = calls + 1 /\ last'.op = "save" /\ last'.fault # "none")
       => last'.err = "PersistenceError"]_vars

\* C34: whatever the data file held when the database was constructed, and
\* after any sequence of calls, the root is a mapping; a load that yields no
\* mapping starts the database as {}
C34_RootIsMapping ==
  /\ isObject(data)
  /\ (calls = 0 /\ ~(dataFile.exists /\ dataFile.content.t = "object")) => data = Obj(<<>>)

\* C35: when the callback passed to Database.update throws, update raises
\* UpdateCallbackFailed and the root tree is as it was before the call
C35_ThrowRestores ==
  [][(calls' = calls + 1 /\ last'.op = "update" /\ last'.err = "UpdateCallbackFailed")
       => data' = data]_vars

\* C36: when entries are only added by create and createBulk calls that omit
\* the auto-increment field f, and update never changes f, no two entries
\* present at the same time have the same value of f, after any sequence of
\* create, createBulk, remove, random, get and getMany calls
C36_UniqueAuto ==
  \A i \in AutoFields :
    \A j, k \in 1..Len(cData) :
      j # k => Prop(cData[j], Tail(cDefaults[i][1])) # Prop(cData[k], Tail(cDefaults[i][1]))

\* C39: random(amount) only reads the collection: it leaves the in-memory
\* entries and their order as they were
C39_RandomReadsOnly ==
  [][(calls' = calls + 1 /\ last'.op = "random") => cData' = cData]_vars

\* C38: after every call of create, createBulk, remove, update, reset,
\* save, random, get, getMany and getAll, totalEntries is the number of
\* entries held in memory
C38_CounterMatches == totalEntries = Len(cData)

\* remove() took the two entries of the collection out: the counter is 0
C38_Witness ==
  /\ last.op = "remove" /\ last.err = "none" /\ last.filter = Undefined
  /\ Len(last.ret.a) = 2 /\ cData = <<>> /\ totalEntries = 0

\* the operations that change the tree
ChangingOps ==
  {"set", "delete", "add", "subtract", "push", "pull", "rename", "update", "clear"}

\* C37: with autoSave on, after a call of set, delete, add, subtract, push,
\* pull, rename, update or clear that changed the tree has returned, the data
\* file holds the JSON serialization of the tree
C37_FileFollowsTree ==
  [][(dbConfig.autoSave /\ calls' = calls + 1 /\ last'.op \in ChangingOps
      /\ last'.err = "none" /\ data' # data)
       => dataFile' = Written(data')]_vars

\* push appended to an array of the tree in place: set found the array
\* stored and did not save, push saved
C37_Witness ==
  /\ dbConfig.autoSave
  /\ last.op = "push" /\ last.key = Ka /\ last.err = "none" /\ last.writes = 1
  /\ dataFile = Written(data)

\* the proper prefixes of the segments keys, the empty one left out
Prefixes(keys) == {SubSeq(keys, 1, n) : n \in 1..(Len(keys) - 1)}

\* one of the two sequences of segments starts with the other
Related(p, q) ==
  \/ Len(p) <= Len(q) /\ SubSeq(q, 1, Len(p)) = p
  \/ Len(q) <= Len(p) /\ SubSeq(p, 1, Len(q)) = q

\* the keys whose values are compared before and after a set
Probes == {Split(k.s) : k \in {Ka, Kab, Ka0, KaLength, Kc, Kcb}}

\* set was called with a valid key and returned
SetStep == calls' = calls + 1 /\ last'.op = "set" /\ last'.err = "none"

\* C40: set(k, v) changes only k and the containers on k's path: when every
\* existing intermediate segment of k holds a mapping, every key that is
\* neither a prefix nor an extension of k resolves to the same value after the
\* call as before; an existing intermediate that holds a value that is no
\* mapping is replaced by a fresh mapping, which holds nothing but the next
\* segment
C40_SetFrame ==
  [][SetStep =>
       LET keys == Split(last'.key.s)
           held0(p) == GetPath(data, p)
       IN /\ (\A p \in Prefixes(keys) : held0(p) = Undefined \/ isObject(held0(p)))
               => \A q \in Probes : ~Related(keys, q) => GetPath(data', q) = GetPath(data, q)
          /\ \A p \in Prefixes(keys) :
               (/\ held0(p) # Undefined /\ ~isObject(held0(p))
                /\ ~StrictEquals(GetPath(data, keys), last'.value, last'.sameRef))
                 => /\ isObject(GetPath(data', p))
                    /\ \A i \in 1..Len(GetPath(data', p).m) :
                         GetPath(data', p).m[i][1] = keys[Len(p) + 1]]_vars

\* set('a.0', v) stored under a mapping that holds b, and b is still there
C40_Witness ==
  /\ Returned("set") /\ last.key = Ka0 /\ ~last.had /\ last.writes = 0
  /\ GetPath(data, Split(Kab.s)) # Undefined
  /\ GetPath(data, Split(Ka0.s)) = last.value
====
